---- MODULE Spec2Model ----
(***************************************************************************)
(* ddb-explorer: a terminal browser for DynamoDB tables.                   *)
(*                                                                         *)
(* The model follows src/main.go (the tview user interface: table list,    *)
(* query/scan form, paginated results, item detail, JSON viewer) and the   *)
(* client wrapper aws/dynamodb.go, whose text is the Go code that follows  *)
(* the prose of src/README.md (lines 152-510).                             *)
(*                                                                         *)
(* The UI event loop of tview runs one key handler or one queued update at *)
(* a time; a handler that calls the client directly keeps the loop busy    *)
(* until the backend has answered.  Goroutines call the client and post    *)
(* their completion with app.QueueUpdateDraw.                              *)
(***************************************************************************)
EXTENDS Integers, Sequences, FiniteSets, TLC

(***************************************************************************)
(* Bounds of the model.                                                    *)
(***************************************************************************)
\* the longest page history explored
MaxPages == 2
\* the number of items the modelled backend holds for a page at most
MaxItems == 1

\* no page: the focus when no page is visible
Nil == "nil"

Range(s) == {s[i] : i \in 1..Len(s)}

(***************************************************************************)
(* DynamoDB attribute values (types.AttributeValue): a tag and a value.    *)
(* The text of a Number is kept as its sequence of characters.             *)
(***************************************************************************)
AVS(s) == [T |-> "S", V |-> s]
AVN(cs) == [T |-> "N", V |-> cs]
AVL(l) == [T |-> "L", V |-> l]
AVM(m) == [T |-> "M", V |-> m]
AVBOOL(b) == [T |-> "BOOL", V |-> b]
AVNULL == [T |-> "NULL", V |-> TRUE]

RECURSIVE Join(_, _)
\* strings.Join(elems, sep)
Join(elems, sep) ==
    IF Len(elems) = 0 THEN ""
    ELSE IF Len(elems) = 1 THEN elems[1]
    ELSE elems[1] \o sep \o Join(Tail(elems), sep)

\* the orders in which a range over a map of these keys may visit them
KeyOrders(keys) ==
    {o \in [1..Cardinality(keys) -> keys] :
        \A i, j \in 1..Cardinality(keys) : i # j => o[i] # o[j]}

RECURSIVE formatAttributeValue(_)
\* the display string of an attribute value
formatAttributeValue(v) ==
    CASE v.T = "S" -> v.V
      [] v.T = "N" -> Join(v.V, "")
      [] v.T = "L" ->
            "[" \o Join([i \in 1..Len(v.V) |-> formatAttributeValue(v.V[i])], ", ") \o "]"
      [] v.T = "M" ->
            \* the pairs come in the order of a range over the map; the maps of
            \* the modelled items have one key, so every order gives this text
            LET o == CHOOSE order \in KeyOrders(DOMAIN v.V) : TRUE
            IN  "{" \o Join([i \in 1..Len(o) |->
                                o[i] \o ": " \o formatAttributeValue(v.V[o[i]])], ", ") \o "}"
      [] v.T = "NULL" -> "null"
      [] v.T = "BOOL" -> IF v.V THEN "true" ELSE "false"
      [] OTHER -> "unknown"

\* for every element of a domain one of the texts its value may be given
TextsOf(D, texts) ==
    {f \in [D -> UNION {texts[d] : d \in D}] : \A d \in D : f[d] \in texts[d]}

RECURSIVE Displays(_)
\* the display strings formatAttributeValue may return for a value: the
\* pairs of a Map are appended in the order the range over the Go map visits
\* its keys, which the language leaves open and the runtime varies from one
\* range to the next
Displays(v) ==
    CASE v.T = "L" ->
            {"[" \o Join(strs, ", ") \o "]" :
                strs \in TextsOf(1..Len(v.V), [i \in 1..Len(v.V) |-> Displays(v.V[i])])}
      [] v.T = "M" ->
            UNION {{"{" \o Join([i \in 1..Len(o) |-> o[i] \o ": " \o strs[o[i]]], ", ") \o "}" :
                        o \in KeyOrders(DOMAIN v.V)} :
                   strs \in TextsOf(DOMAIN v.V, [k \in DOMAIN v.V |-> Displays(v.V[k])])}
      [] OTHER -> {formatAttributeValue(v)}

(***************************************************************************)
(* Go native values (interface{}): the dynamic type and the value.         *)
(***************************************************************************)
GoString(s) == [K |-> "string", V |-> s]
GoInt64(n) == [K |-> "int64", V |-> n]
GoFloat64(f) == [K |-> "float64", V |-> f]
GoSlice(l) == [K |-> "[]interface{}", V |-> l]
GoMap(m) == [K |-> "map[string]interface{}", V |-> m]
GoBool(b) == [K |-> "bool", V |-> b]
GoNil == [K |-> "nil", V |-> TRUE]

\* the decimal digits strconv.ParseInt accepts
DigitValue(c) ==
    CASE c = "0" -> 0 [] c = "1" -> 1 [] c = "2" -> 2 [] c = "3" -> 3
      [] c = "4" -> 4 [] c = "5" -> 5 [] c = "6" -> 6 [] c = "7" -> 7
      [] c = "8" -> 8 [] c = "9" -> 9 [] OTHER -> -1

RECURSIVE DigitsValue(_, _)
DigitsValue(cs, acc) ==
    IF Len(cs) = 0 THEN acc
    ELSE DigitsValue(Tail(cs), acc * 10 + DigitValue(cs[1]))

\* strconv.ParseInt(text, 10, 64) succeeds: an optional sign and digits only
IsIntText(cs) ==
    LET body == IF Len(cs) > 0 /\ cs[1] \in {"-", "+"} THEN Tail(cs) ELSE cs
    IN  /\ Len(body) > 0
        /\ \A i \in 1..Len(body) : DigitValue(body[i]) >= 0

ParseInt(cs) ==
    IF cs[1] = "-" THEN 0 - DigitsValue(Tail(cs), 0)
    ELSE IF cs[1] = "+" THEN DigitsValue(Tail(cs), 0)
    ELSE DigitsValue(cs, 0)

\* strconv.ParseFloat(text, 64) succeeds, for texts in plain decimal
\* notation: an optional sign, digits and at most one point
IsFloatText(cs) ==
    LET body == IF Len(cs) > 0 /\ cs[1] \in {"-", "+"} THEN Tail(cs) ELSE cs
        points == {i \in 1..Len(body) : body[i] = "."}
    IN  /\ Cardinality(points) <= 1
        /\ \E i \in 1..Len(body) : DigitValue(body[i]) >= 0
        /\ \A i \in 1..Len(body) : i \in points \/ DigitValue(body[i]) >= 0

RECURSIVE Normalise(_, _)
\* the decimal m * 10^e without trailing zeros behind the point
Normalise(m, e) ==
    IF e < 0 /\ m % 10 = 0 THEN Normalise(m \div 10, e + 1) ELSE [m |-> m, e |-> e]

\* strconv.ParseFloat(text, 64) of a text in plain decimal notation: the
\* float64 nearest to the decimal, which for the short texts of the model is
\* identified by the decimal itself, m * 10^e
ParseFloat(cs) ==
    LET neg == cs[1] = "-"
        body == IF cs[1] \in {"-", "+"} THEN Tail(cs) ELSE cs
        digits == SelectSeq(body, LAMBDA c : c # ".")
        point == IF \E i \in 1..Len(body) : body[i] = "."
                 THEN CHOOSE i \in 1..Len(body) : body[i] = "."
                 ELSE Len(body)
        value == DigitsValue(digits, 0)
    IN  Normalise(IF neg THEN 0 - value ELSE value, point - Len(body))

\* a variant that never parses the text of a Number
attributeValueToInterfaceAsText(v) ==
    IF v.T = "N" THEN GoString(Join(v.V, "")) ELSE GoString("unknown")

RECURSIVE attributeValueToInterface(_)
\* the native value of an attribute value: a Number is an int64 if its text
\* parses as one, else a float64 if it parses as one, else the text
attributeValueToInterface(v) ==
    CASE v.T = "S" -> GoString(v.V)
      [] v.T = "N" ->
            IF IsIntText(v.V) THEN GoInt64(ParseInt(v.V))
            ELSE IF IsFloatText(v.V) THEN GoFloat64(ParseFloat(v.V))
            ELSE GoString(Join(v.V, ""))
      [] v.T = "BOOL" -> GoBool(v.V)
      [] v.T = "NULL" -> GoNil
      [] v.T = "L" ->
            GoSlice([i \in 1..Len(v.V) |-> attributeValueToInterface(v.V[i])])
      [] v.T = "M" ->
            GoMap([k \in DOMAIN v.V |-> attributeValueToInterface(v.V[k])])
      [] OTHER -> GoString("unknown")

\* the display form of an item: every attribute formatted as text
FormatItem(item) == [k \in DOMAIN item |-> formatAttributeValue(item[k])]

\* the raw form of an item: every attribute as a native value
NativeItem(item) == [k \in DOMAIN item |-> attributeValueToInterface(item[k])]

\* the nil map: an absent LastEvaluatedKey / ExclusiveStartKey / binding table
NilMap == [nil |-> TRUE]

\* strconv.FormatInt(n, 10) as a sequence of characters
DigitChar(d) ==
    CASE d = 0 -> "0" [] d = 1 -> "1" [] d = 2 -> "2" [] d = 3 -> "3"
      [] d = 4 -> "4" [] d = 5 -> "5" [] d = 6 -> "6" [] d = 7 -> "7"
      [] d = 8 -> "8" [] OTHER -> "9"

RECURSIVE FormatNat(_)
FormatNat(n) ==
    IF n < 10 THEN <<DigitChar(n)>> ELSE Append(FormatNat(n \div 10), DigitChar(n % 10))

FormatInt(n) == IF n < 0 THEN <<"-">> \o FormatNat(0 - n) ELSE FormatNat(n)

(***************************************************************************)
(* aws/dynamodb.go: the client.                                            *)
(***************************************************************************)
\* the batch size of Query and Scan
PageSize == 15

\* the operators of the Condition drop-down of the query form
Conditions == <<"=", "begins_with", "<", "<=", ">", ">=", "between">>

\* the conversion of exclusiveStartKey to an AttributeValue map: a type
\* switch with the cases string and int64; any other value is left out
ExclusiveStartKeyOf(exclusiveStartKey) ==
    IF exclusiveStartKey = NilMap THEN NilMap
    ELSE LET kept == {k \in DOMAIN exclusiveStartKey :
                         exclusiveStartKey[k].K \in {"string", "int64"}}
         IN  [k \in kept |->
                 IF exclusiveStartKey[k].K = "string"
                 THEN AVS(exclusiveStartKey[k].V)
                 ELSE AVN(FormatInt(exclusiveStartKey[k].V))]

\* the key condition expression, as its sequence of tokens
KeyConditionExpression(sortKey, sortValue, condition) ==
    IF sortKey # "" /\ sortValue # ""
    THEN CASE condition = "=" -> <<"#pk", "=", ":pk", "AND", "#sk", "=", ":sk">>
           [] condition = "begins_with" ->
                 <<"#pk", "=", ":pk", "AND", "begins_with", "(", "#sk", ",", ":sk", ")">>
           [] condition = "<" -> <<"#pk", "=", ":pk", "AND", "#sk", "<", ":sk">>
           [] condition = "<=" -> <<"#pk", "=", ":pk", "AND", "#sk", "<=", ":sk">>
           [] condition = ">" -> <<"#pk", "=", ":pk", "AND", "#sk", ">", ":sk">>
           [] condition = ">=" -> <<"#pk", "=", ":pk", "AND", "#sk", ">=", ":sk">>
           [] condition = "between" ->
                 <<"#pk", "=", ":pk", "AND", "#sk", "BETWEEN", ":sk", "AND", ":sk2">>
           [] OTHER -> <<"#pk", "=", ":pk">>
    ELSE <<"#pk", "=", ":pk">>

\* Client.Query up to the call of the service: the QueryInput
QueryInput(tableName, partitionKey, partitionValue, sortKey, sortValue, condition, exclusiveStartKey) ==
    [Op |-> "Query",
     TableName |-> tableName,
     Limit |-> PageSize,
     KeyConditionExpression |-> KeyConditionExpression(sortKey, sortValue, condition),
     ExpressionAttributeNames |->
        IF sortKey # "" /\ sortValue # ""
        THEN [k \in {"#pk", "#sk"} |-> IF k = "#pk" THEN partitionKey ELSE sortKey]
        ELSE [k \in {"#pk"} |-> partitionKey],
     ExpressionAttributeValues |->
        IF sortKey # "" /\ sortValue # ""
        THEN [k \in {":pk", ":sk"} |->
                 IF k = ":pk" THEN AVS(partitionValue) ELSE AVS(sortValue)]
        ELSE [k \in {":pk"} |-> AVS(partitionValue)],
     ExclusiveStartKey |-> ExclusiveStartKeyOf(exclusiveStartKey)]

\* a variant that sets no limit
ScanInputNoLimit(tableName, exclusiveStartKey) ==
    [Op |-> "Scan",
     TableName |-> tableName,
     Limit |-> 0,
     KeyConditionExpression |-> <<>>,
     ExpressionAttributeNames |-> NilMap,
     ExpressionAttributeValues |-> NilMap,
     ExclusiveStartKey |-> ExclusiveStartKeyOf(exclusiveStartKey)]

\* Client.Scan up to the call of the service: the ScanInput
ScanInput(tableName, exclusiveStartKey) ==
    [Op |-> "Scan",
     TableName |-> tableName,
     Limit |-> PageSize,
     KeyConditionExpression |-> <<>>,
     ExpressionAttributeNames |-> NilMap,
     ExpressionAttributeValues |-> NilMap,
     ExclusiveStartKey |-> ExclusiveStartKeyOf(exclusiveStartKey)]

\* the conversion of LastEvaluatedKey: every value becomes its display string
LastKeyOf(lastEvaluatedKey) ==
    IF lastEvaluatedKey = NilMap THEN NilMap
    ELSE [k \in DOMAIN lastEvaluatedKey |->
             GoString(formatAttributeValue(lastEvaluatedKey[k]))]

\* the zero QueryResult returned with an error
NoResult == [Items |-> <<>>, RawItems |-> <<>>, LastEvaluatedKey |-> NilMap]

\* Client.Query / Client.Scan after the call: the QueryResult of an output
QueryResultOf(output) ==
    [Items |-> [i \in 1..Len(output.Items) |->
                   FormatItem(output.Items[i])],
     RawItems |-> [i \in 1..Len(output.Items) |->
                      NativeItem(output.Items[i])],
     LastEvaluatedKey |-> LastKeyOf(output.LastEvaluatedKey)]

\* the table the service describes: its item count and its key schema (the
\* hash and range key of the table; no table has a global secondary index)
DescribeTable(name) ==
    IF name = "users"
    THEN [ItemCount |-> 20, HASH |-> "id", RANGE |-> "ts"]
    ELSE [ItemCount |-> 50, HASH |-> "id", RANGE |-> ""]

\* the keys of the map schemaFields that getTableInfo fills
SchemaFieldSet(name) ==
    {DescribeTable(name).HASH, DescribeTable(name).RANGE} \ {""}

\* Client.getTableInfo: fields is the order in which the range over
\* schemaFields visits the keys
getTableInfo(name, fields) ==
    [Name |-> name, ItemCount |-> DescribeTable(name).ItemCount,
     PartitionKey |-> DescribeTable(name).HASH,
     SortKey |-> DescribeTable(name).RANGE, SchemaFields |-> fields]

RECURSIVE InsertByItemCount(_, _)
\* the place of t in a list kept by descending ItemCount
InsertByItemCount(t, sorted) ==
    IF Len(sorted) = 0 THEN <<t>>
    ELSE IF t.ItemCount > sorted[1].ItemCount THEN <<t>> \o sorted
    ELSE <<sorted[1]>> \o InsertByItemCount(t, Tail(sorted))

\* a variant that leaves the tables in the order they were described
SortByItemCountKeepsOrder(ts) == ts

RECURSIVE SortByItemCount(_)
\* sort.Slice(tables, ItemCount descending)
SortByItemCount(ts) ==
    IF Len(ts) = 0 THEN <<>>
    ELSE InsertByItemCount(ts[1], SortByItemCount(Tail(ts)))

RECURSIVE DescribeAllKeepFailed(_, _, _)
\* a variant of the loop that appends the empty TableInfo of a failed describe
DescribeAllKeepFailed(names, failing, fields) ==
    IF Len(names) = 0 THEN <<>>
    ELSE IF names[1] \in failing
    THEN <<[Name |-> "", ItemCount |-> 0, PartitionKey |-> "", SortKey |-> "",
            SchemaFields |-> <<>>]>> \o DescribeAllKeepFailed(Tail(names), failing, fields)
    ELSE <<getTableInfo(names[1], fields[names[1]])>>
            \o DescribeAllKeepFailed(Tail(names), failing, fields)

RECURSIVE DescribeAll(_, _, _)
\* the loop of Client.ListTables: a table whose describe call fails is skipped
DescribeAll(names, failing, fields) ==
    IF Len(names) = 0 THEN <<>>
    ELSE IF names[1] \in failing THEN DescribeAll(Tail(names), failing, fields)
    ELSE <<getTableInfo(names[1], fields[names[1]])>> \o DescribeAll(Tail(names), failing, fields)

\* Client.ListTables on the table names the service lists
ListTables(names, failing, fields) == SortByItemCount(DescribeAll(names, failing, fields))

\* the two results of Client.ListTables: the error of the listing call, or
\* the tables described
ClientListTables(listFails, names, failing, fields) ==
    IF listFails THEN [tables |-> <<>>, err |-> TRUE]
    ELSE [tables |-> ListTables(names, failing, fields), err |-> FALSE]

(***************************************************************************)
(* The backend: the tables and the pages the service may answer with.      *)
(***************************************************************************)
\* the table names of the account, in the order the service lists them
TableNames == <<"users", "logs">>

\* the i-th item of a table: the key attributes of the table and, in odd
\* items, a list of tags (table users) or a map (other tables), in even
\* items an email address
RawItemOf(tableName, i) ==
    LET key == IF DescribeTable(tableName).RANGE = ""
               THEN [id |-> AVS("a: " \o ToString(i))]
               ELSE [id |-> AVS("u/" \o ToString(i)), ts |-> AVN(FormatInt(i + 6))]
        other == IF i % 2 = 0 THEN [email |-> AVS("b@x")]
                 ELSE IF tableName = "users"
                 THEN [tags |-> AVL(<<AVS("a"), AVS("b")>>)]
                 ELSE [meta |-> AVM([lang |-> AVS("en")])]
    IN  [k \in DOMAIN key \cup DOMAIN other |->
            IF k \in DOMAIN key THEN key[k] ELSE other[k]]

\* the primary key of an item of a table
KeyOf(tableName, item) ==
    [k \in SchemaFieldSet(tableName) |-> item[k]]

\* the outputs of the service for a Query or Scan when a number of items
\* is available: no item or as many items as the limit of the request
\* allows (all of them if the request sets no limit), from the start of the
\* table, and, or not, the key of the last item evaluated (an output without
\* items may carry a key)
OutputsOf(input, available) ==
    LET n == IF input.Limit > 0 /\ input.Limit < available THEN input.Limit ELSE available
    IN  UNION {{[Items |-> [i \in 1..m |-> RawItemOf(input.TableName, i)],
                 LastEvaluatedKey |-> k] :
                   k \in {NilMap, KeyOf(input.TableName,
                                        RawItemOf(input.TableName, IF m = 0 THEN 1 ELSE m))}} :
               m \in {0, n}}

\* the placeholders of attribute values an expression may refer to
ValuePlaceholders == {":pk", ":sk", ":sk2"}

\* the service answers a Query only if every value its key condition refers
\* to is bound and no key value is the empty string; any other Query is
\* rejected with a validation error
ServiceAccepts(input) ==
    input.Op = "Query" =>
        /\ (Range(input.KeyConditionExpression) \cap ValuePlaceholders)
               \subseteq DOMAIN input.ExpressionAttributeValues
        /\ \A k \in DOMAIN input.ExpressionAttributeValues :
               input.ExpressionAttributeValues[k] # AVS("")

\* the outputs of the service during a session
Outputs(input) == IF ServiceAccepts(input) THEN OutputsOf(input, MaxItems) ELSE {}

(***************************************************************************)
(* tview.Pages: the pages in the order they were added, each visible or    *)
(* not; the top visible page has the focus.                                *)
(***************************************************************************)
\* Pages.RemovePage: if the page was visible and none but the last of the
\* others is, the last page becomes visible
RemovePage(ps, name) ==
    LET rest == SelectSeq(ps, LAMBDA p : p.name # name)
        wasVisible == \E i \in 1..Len(ps) : ps[i].name = name /\ ps[i].visible
    IN  IF wasVisible /\ Len(rest) > 0
           /\ \A i \in 1..(Len(rest) - 1) : ~rest[i].visible
        THEN [rest EXCEPT ![Len(rest)].visible = TRUE]
        ELSE rest

\* Pages.AddPage: a page of the same name is replaced
AddPage(ps, name, visible) ==
    Append(SelectSeq(ps, LAMBDA p : p.name # name), [name |-> name, visible |-> visible])

\* Pages.SwitchToPage: the page is shown and every other page hidden
SwitchToPage(ps, name) ==
    [i \in 1..Len(ps) |-> [ps[i] EXCEPT !.visible = (ps[i].name = name)]]

HasPage(ps, name) == \E i \in 1..Len(ps) : ps[i].name = name

\* Pages.Focus: the focus goes to the top visible page
TopPage(ps) ==
    LET vis == {i \in 1..Len(ps) : ps[i].visible}
    IN  IF vis = {} THEN Nil
        ELSE ps[CHOOSE i \in vis : \A j \in vis : j <= i].name

(***************************************************************************)
(* src/main.go: the state of the session.                                  *)
(***************************************************************************)
VARIABLES
    pages,          \* the tview.Pages of the application
    focus,          \* the name of the page that holds the keyboard focus
    uiloop,         \* the UI event loop: "notrunning" until main runs it,
                    \* "idle", "blocked" in a client call
                    \* made by a key handler, "crashed" (panic), "stopped"
    call,           \* the request a blocked key handler waits for
    goroutines,     \* the goroutines waiting for the backend
    updates,        \* the functions queued with app.QueueUpdateDraw
    tables,         \* var tables []aws.TableInfo
    tableInfo,      \* the table of the table action page
    currentTab,     \* 0: Query, 1: Scan
    form,           \* the texts of the input fields and the chosen condition
    params,         \* pkValue, sortKey, sortValue, cond of the results page
    result,         \* the QueryResult on display
    shared,         \* the page of the history whose item maps are those of
                    \* result.Items (Go maps are references); 0: none
    currentPage,    \* the number of the page on display
    pageHistory,    \* the pages fetched so far
    itemRows,       \* the rows of the item table of the item detail page
    rawItem,        \* the raw item of the item detail page
    jsonField,      \* the field shown by the JSON viewer
    written,        \* the file written by the export whose notice is shown
    fn,             \* the call of a function of the program on its own: the
                    \* function, its arguments and the value it returned
    proc,           \* the process: the place of main, the flags, the checks
                    \* passed, the exit code, the output, the backend calls
    wireKey,        \* the LastEvaluatedKey of the output result was made from
    wireHistory,    \* the LastEvaluatedKey of the output of every history page
    navFlex         \* the buttons of the navigation row of the results page

vars == <<pages, focus, uiloop, call, goroutines, updates, tables, tableInfo,
          currentTab, form, params, result, shared, currentPage, pageHistory,
          itemRows, rawItem, jsonField, written, fn, proc, wireKey, wireHistory,
          navFlex>>

sessionVars == <<tables, tableInfo, currentTab, form>>
resultVars == <<params, result, shared, currentPage, pageHistory, wireKey, wireHistory,
                navFlex>>
itemVars == <<itemRows, rawItem, jsonField, written>>

NoTable ==
    [Name |-> "", ItemCount |-> 0, PartitionKey |-> "", SortKey |-> "",
     SchemaFields |-> <<>>]

NoInput ==
    [Op |-> "", TableName |-> "", Limit |-> 0, KeyConditionExpression |-> <<>>,
     ExpressionAttributeNames |-> NilMap, ExpressionAttributeValues |-> NilMap,
     ExclusiveStartKey |-> NilMap]

\* the request of Client.ListTables
ListTablesInput == [NoInput EXCEPT !.Op = "ListTables"]

NoParams == [pkValue |-> "", sortKey |-> "", sortValue |-> "", cond |-> ""]

\* the form as updateForm builds it: empty fields, the first condition
\* no function is called on its own
NoCall == [name |-> "", args |-> <<>>, value |-> <<>>]

\* no file has been written
NoFile == [name |-> "", content |-> NilMap]

EmptyForm == [pk |-> "", sk |-> "", cond |-> Conditions[1]]

\* the texts and conditions the user enters
PkInputs == {"", "u1"}
SkInputs == {"", "7"}
CondInputs == {"between"}

\* the values of the flag -profile the program is started with
ProfileInputs == {"dev", "prod", "test"}

\* the process at the start of main, after flag.Parse
Started(help, profile) ==
    [pc |-> "help", help |-> help, profile |-> profile, passed |-> <<>>,
     code |-> 0, out |-> "", backend |-> 0]

\* the process once main runs the application: the flags are read no more
Running ==
    [pc |-> "run", help |-> FALSE, profile |-> "",
     passed |-> <<"help", "profile", "client", "connect">>,
     code |-> 0, out |-> "Connected to AWS successfully", backend |-> 1]

\* os.Exit(code) after a message
Exit(p, code, out) == [p EXCEPT !.pc = "exit", !.code = code, !.out = out]

\* a check of main has passed
Pass(p, check, pc) == [p EXCEPT !.pc = pc, !.passed = Append(@, check)]

Init ==
    /\ pages = <<>>
    /\ focus = ""
    /\ uiloop = "notrunning"
    /\ call = NoInput
    /\ goroutines = {}
    /\ \E help \in BOOLEAN, profile \in ProfileInputs : proc = Started(help, profile)
    /\ updates = <<>>
    /\ tables = <<>>
    /\ tableInfo = NoTable
    /\ currentTab = 0
    /\ form = EmptyForm
    /\ params = NoParams
    /\ result = NoResult
    /\ shared = 0
    /\ currentPage = 0
    /\ pageHistory = <<>>
    /\ itemRows = <<>>
    /\ rawItem = NilMap
    /\ jsonField = ""
    /\ written = NoFile
    /\ fn = NoCall
    /\ wireKey = NilMap
    /\ wireHistory = <<>>
    /\ navFlex = <<>>

\* The closures of a page that has been removed, or that is hidden until
\* createTableActionPage replaces it, are unreachable: their variables are
\* given their initial values.
DropForm ==
    /\ tableInfo' = NoTable
    /\ currentTab' = 0
    /\ form' = EmptyForm

DropResults ==
    /\ params' = NoParams
    /\ result' = NoResult
    /\ shared' = 0
    /\ currentPage' = 0
    /\ pageHistory' = <<>>
    /\ wireKey' = NilMap
    /\ wireHistory' = <<>>
    /\ navFlex' = <<>>

DropItem ==
    /\ itemRows' = <<>>
    /\ rawItem' = NilMap

\* a key event is handled when the loop is idle, by the page with the focus
KeyOn(page) == uiloop = "idle" /\ focus = page

(***************************************************************************)
(* main: the start of the program.                                         *)
(***************************************************************************)
\* main: the flag -help prints the usage and ends the program
MainHelp ==
    /\ proc.pc = "help"
    /\ proc' = IF proc.help THEN Exit(proc, 0, "usage") ELSE Pass(proc, "help", "profile")
    /\ UNCHANGED <<pages, focus, uiloop, call, goroutines, updates, sessionVars,
                   resultVars, itemVars, fn>>

\* a variant that lets every profile pass
MainProfileUnchecked ==
    /\ proc.pc = "profile"
    /\ proc' = Pass(proc, "profile", "client")
    /\ UNCHANGED <<pages, focus, uiloop, call, goroutines, updates, sessionVars,
                   resultVars, itemVars, fn>>

\* main: a profile other than dev and prod ends the program
MainProfile ==
    /\ proc.pc = "profile"
    /\ proc' = IF proc.profile # "dev" /\ proc.profile # "prod"
               THEN Exit(proc, 1, "Invalid profile")
               ELSE Pass(proc, "profile", "client")
    /\ UNCHANGED <<pages, focus, uiloop, call, goroutines, updates, sessionVars,
                   resultVars, itemVars, fn>>

\* main: aws.NewClient loads the configuration of the profile, or fails
MainNewClient ==
    /\ proc.pc = "client"
    /\ \E failed \in BOOLEAN :
          proc' = IF failed THEN Exit(proc, 1, "Failed to create AWS client")
                  ELSE Pass(proc, "client", "connect")
    /\ UNCHANGED <<pages, focus, uiloop, call, goroutines, updates, sessionVars,
                   resultVars, itemVars, fn>>

\* main: client.TestConnection lists the tables of the service, or fails
MainTestConnection ==
    /\ proc.pc = "connect"
    /\ \E failed \in BOOLEAN :
          LET called == [proc EXCEPT !.backend = @ + 1]
          IN  proc' = IF failed THEN Exit(called, 1, "Failed to connect to AWS")
                      ELSE Pass(called, "connect", "app")
    /\ UNCHANGED <<pages, focus, uiloop, call, goroutines, updates, sessionVars,
                   resultVars, itemVars, fn>>

\* main: the pages are made, the goroutine that loads the table list is
\* started and the application runs
MainRun ==
    /\ proc.pc = "app"
    /\ proc' = Running
    /\ pages' = <<[name |-> "loading", visible |-> TRUE],
                  [name |-> "tablelist", visible |-> FALSE]>>
    /\ focus' = "tablelist"
    /\ uiloop' = "idle"
    /\ goroutines' = {[kind |-> "list", input |-> ListTablesInput, params |-> NoParams]}
    /\ UNCHANGED <<call, updates, sessionVars, resultVars, itemVars, fn>>

(***************************************************************************)
(* main: the table list.                                                   *)
(***************************************************************************)
\* the sets of tables whose describe call fails during a load of the list
DescribeFailures == {{}, Range(TableNames)}

\* for every table an order in which getTableInfo may list its schema fields
SchemaFieldOrders ==
    {f \in [Range(TableNames) -> UNION {KeyOrders(SchemaFieldSet(n)) : n \in Range(TableNames)}] :
        \A n \in Range(TableNames) : f[n] \in KeyOrders(SchemaFieldSet(n))}

\* a variant in which the goroutine itself assigns the table list
ListTablesReplyDirect ==
    \E g \in goroutines, failing \in DescribeFailures, fields \in SchemaFieldOrders :
        /\ g.kind = "list"
        /\ goroutines' = goroutines \ {g}
        /\ tables' = ListTables(TableNames, failing, fields)
        /\ updates' = Append(updates,
              [kind |-> "list", err |-> FALSE, tableInfos |-> tables',
               result |-> NoResult, params |-> NoParams, wire |-> NilMap])
        /\ UNCHANGED <<pages, focus, uiloop, call, tableInfo, currentTab, form,
                       resultVars, itemVars>>
        /\ UNCHANGED <<fn, proc>>

\* the goroutine of main: client.ListTables() answers, the update is queued
ListTablesReply ==
    \E g \in goroutines, failed \in BOOLEAN, failing \in DescribeFailures,
       fields \in SchemaFieldOrders :
        /\ g.kind = "list"
        /\ failed => fields = CHOOSE f \in SchemaFieldOrders : TRUE
        /\ failed => failing = {}
        /\ goroutines' = goroutines \ {g}
        /\ updates' = Append(updates,
              [kind |-> "list", err |-> failed,
               tableInfos |-> IF failed THEN <<>> ELSE ListTables(TableNames, failing, fields),
               result |-> NoResult, params |-> NoParams, wire |-> NilMap])
        /\ UNCHANGED <<pages, focus, uiloop, call, sessionVars, resultVars, itemVars>>
        /\ UNCHANGED <<fn, proc>>

\* the update queued by the goroutine of main
ApplyTableList ==
    /\ uiloop = "idle"
    /\ Len(updates) > 0
    /\ updates[1].kind = "list"
    /\ updates' = Tail(updates)
    /\ pages' = SwitchToPage(pages, "tablelist")
    /\ focus' = TopPage(pages')
    /\ tables' = IF ~updates[1].err /\ Len(updates[1].tableInfos) > 0
                 THEN updates[1].tableInfos ELSE tables
    /\ UNCHANGED <<uiloop, call, goroutines, tableInfo, currentTab, form, resultVars, itemVars>>
    /\ UNCHANGED <<fn, proc>>

\* ESC or q on the table list
TableListQuit ==
    /\ KeyOn("tablelist")
    /\ uiloop' = "stopped"
    /\ UNCHANGED <<pages, focus, call, goroutines, updates, sessionVars, resultVars, itemVars>>
    /\ UNCHANGED <<fn, proc>>

\* a variant that opens the table action page for any row
TableListEnterAnyRow(row) ==
    /\ KeyOn("tablelist")
    /\ tableInfo' = IF row > 0 /\ row <= Len(tables) THEN tables[row] ELSE NoTable
    /\ currentTab' = 0
    /\ form' = EmptyForm
    /\ pages' = SwitchToPage(AddPage(pages, "tableaction", FALSE), "tableaction")
    /\ focus' = TopPage(pages')
    /\ UNCHANGED <<uiloop, call, goroutines, updates, tables, resultVars, itemVars>>
    /\ UNCHANGED <<fn, proc>>

\* Enter on row `row` of the table list; createTableActionPage for the table
TableListEnter(row) ==
    /\ KeyOn("tablelist")
    /\ IF row > 0 /\ row <= Len(tables)
       THEN /\ tableInfo' = tables[row]
            /\ currentTab' = 0
            /\ form' = EmptyForm
            /\ pages' = SwitchToPage(AddPage(pages, "tableaction", FALSE), "tableaction")
            /\ focus' = TopPage(pages')
       ELSE UNCHANGED <<tableInfo, currentTab, form, pages, focus>>
    /\ UNCHANGED <<uiloop, call, goroutines, updates, tables, resultVars, itemVars>>
    /\ UNCHANGED <<fn, proc>>

(***************************************************************************)
(* createTableActionPage: the form of the table action page.               *)
(***************************************************************************)
\* ESC on the table action page
TableActionEsc ==
    /\ KeyOn("tableaction")
    /\ pages' = SwitchToPage(pages, "tablelist")
    /\ focus' = TopPage(pages')
    /\ DropForm
    /\ UNCHANGED <<uiloop, call, goroutines, updates, tables, resultVars, itemVars>>
    /\ UNCHANGED <<fn, proc>>

\* Ctrl+Q and Ctrl+S select a tab and rebuild the form if the tab changes
TableActionSelectTab(tab) ==
    /\ KeyOn("tableaction")
    /\ currentTab # tab
    /\ currentTab' = tab
    /\ form' = EmptyForm
    /\ UNCHANGED <<pages, focus, uiloop, call, goroutines, updates, tables,
                   tableInfo, resultVars, itemVars>>
    /\ UNCHANGED <<fn, proc>>

\* Left and Right switch to the other tab and rebuild the form
TableActionToggleTab ==
    /\ KeyOn("tableaction")
    /\ currentTab' = 1 - currentTab
    /\ form' = EmptyForm
    /\ UNCHANGED <<pages, focus, uiloop, call, goroutines, updates, tables,
                   tableInfo, resultVars, itemVars>>
    /\ UNCHANGED <<fn, proc>>

\* typing into the partition key field of the query form
EditPartitionKey(text) ==
    /\ KeyOn("tableaction")
    /\ currentTab = 0
    /\ tableInfo.PartitionKey # ""
    /\ form' = [form EXCEPT !.pk = text]
    /\ UNCHANGED <<pages, focus, uiloop, call, goroutines, updates, tables,
                   tableInfo, currentTab, resultVars, itemVars>>
    /\ UNCHANGED <<fn, proc>>

\* typing into the sort key field of the query form
EditSortKey(text) ==
    /\ KeyOn("tableaction")
    /\ currentTab = 0
    /\ tableInfo.SortKey # ""
    /\ form' = [form EXCEPT !.sk = text]
    /\ UNCHANGED <<pages, focus, uiloop, call, goroutines, updates, tables,
                   tableInfo, currentTab, resultVars, itemVars>>
    /\ UNCHANGED <<fn, proc>>

\* choosing an option of the Condition drop-down
SelectCondition(c) ==
    /\ KeyOn("tableaction")
    /\ currentTab = 0
    /\ tableInfo.SortKey # ""
    /\ form' = [form EXCEPT !.cond = c]
    /\ UNCHANGED <<pages, focus, uiloop, call, goroutines, updates, tables,
                   tableInfo, currentTab, resultVars, itemVars>>
    /\ UNCHANGED <<fn, proc>>

\* the arguments the query goroutine passes to client.Query for the form
QueryParams(info, f) ==
    LET pkValue == IF info.PartitionKey # "" THEN f.pk ELSE ""
        skValue == IF info.SortKey # "" THEN f.sk ELSE ""
        condition == IF info.SortKey # "" THEN f.cond ELSE ""
    IN  [pkValue |-> pkValue,
         sortKey |-> IF skValue # "" THEN info.SortKey ELSE "",
         sortValue |-> IF skValue # "" THEN skValue ELSE "",
         cond |-> IF skValue # "" THEN condition ELSE ""]

\* a variant that shows no loading modal: the form keeps the focus
QueryButtonNoModal ==
    /\ KeyOn("tableaction")
    /\ currentTab = 0
    /\ LET p == QueryParams(tableInfo, form)
       IN  goroutines' = goroutines \cup
              {[kind |-> "query",
                input |-> QueryInput(tableInfo.Name, tableInfo.PartitionKey, p.pkValue,
                                     p.sortKey, p.sortValue, p.cond, NilMap),
                params |-> p]}
    /\ UNCHANGED <<pages, focus, uiloop, call, updates, sessionVars, resultVars, itemVars>>
    /\ UNCHANGED <<fn, proc>>

\* the Query button: the loading modal is shown and a goroutine calls
\* client.Query without a start key
QueryButton ==
    /\ KeyOn("tableaction")
    /\ currentTab = 0
    /\ pages' = AddPage(pages, "loading", TRUE)
    /\ focus' = TopPage(pages')
    /\ LET p == QueryParams(tableInfo, form)
       IN  goroutines' = goroutines \cup
              {[kind |-> "query",
                input |-> QueryInput(tableInfo.Name, tableInfo.PartitionKey, p.pkValue,
                                     p.sortKey, p.sortValue, p.cond, NilMap),
                params |-> p]}
    /\ UNCHANGED <<uiloop, call, updates, sessionVars, resultVars, itemVars>>
    /\ UNCHANGED <<fn, proc>>

\* a variant that shows no loading modal: the form keeps the focus
ScanButtonNoModal ==
    /\ KeyOn("tableaction")
    /\ currentTab = 1
    /\ goroutines' = goroutines \cup
          {[kind |-> "scan", input |-> ScanInput(tableInfo.Name, NilMap),
            params |-> NoParams]}
    /\ UNCHANGED <<pages, focus, uiloop, call, updates, sessionVars, resultVars, itemVars>>
    /\ UNCHANGED <<fn, proc>>

\* the Scan button: the loading modal is shown and a goroutine calls
\* client.Scan without a start key
ScanButton ==
    /\ KeyOn("tableaction")
    /\ currentTab = 1
    /\ pages' = AddPage(pages, "loadingscan", TRUE)
    /\ focus' = TopPage(pages')
    /\ goroutines' = goroutines \cup
          {[kind |-> "scan", input |-> ScanInput(tableInfo.Name, NilMap),
            params |-> NoParams]}
    /\ UNCHANGED <<uiloop, call, updates, sessionVars, resultVars, itemVars>>
    /\ UNCHANGED <<fn, proc>>

\* a query or scan goroutine: the backend fails or answers with an output,
\* the client converts it and the update is queued
FetchReply ==
    \E g \in goroutines :
        /\ g.kind \in {"query", "scan"}
        /\ goroutines' = goroutines \ {g}
        /\ \/ updates' = Append(updates,
                 [kind |-> g.kind, err |-> TRUE, tableInfos |-> <<>>,
                  result |-> NoResult, params |-> g.params, wire |-> NilMap])
           \/ \E output \in Outputs(g.input) :
                 updates' = Append(updates,
                    [kind |-> g.kind, err |-> FALSE, tableInfos |-> <<>>,
                     result |-> QueryResultOf(output), params |-> g.params,
                     wire |-> output.LastEvaluatedKey])
        /\ UNCHANGED <<pages, focus, uiloop, call, sessionVars, resultVars, itemVars>>
        /\ UNCHANGED <<fn, proc>>

\* a variant that keeps no item in the page
PageStateOfNoItems(kind, r) ==
    IF kind = "query"
    THEN [items |-> <<>>, lastEvaluatedKey |-> r.LastEvaluatedKey]
    ELSE [items |-> <<>>, rawItems |-> <<>>, lastEvaluatedKey |-> r.LastEvaluatedKey]

\* one page of the history of the query results page (items and key) and
\* of the scan results page (items, raw items and key)
PageStateOf(kind, r) ==
    IF kind = "query"
    THEN [items |-> r.Items, lastEvaluatedKey |-> r.LastEvaluatedKey]
    ELSE [items |-> r.Items, rawItems |-> r.RawItems,
          lastEvaluatedKey |-> r.LastEvaluatedKey]

\* a variant that loses the key of the page taken from the history
ResultOfPageStateNoKey(kind, prevState) ==
    [Items |-> prevState.items, RawItems |-> <<>>, LastEvaluatedKey |-> NilMap]

\* the QueryResult the Ctrl+B handlers build from a page of the history
ResultOfPageState(kind, prevState) ==
    IF kind = "query"
    THEN [Items |-> prevState.items, RawItems |-> <<>>,
          LastEvaluatedKey |-> prevState.lastEvaluatedKey]
    ELSE [Items |-> prevState.items, RawItems |-> prevState.rawItems,
          LastEvaluatedKey |-> prevState.lastEvaluatedKey]

\* the common field names the results page looks for, in this order
candidateFields ==
    <<"title", "Title", "name", "Name", "displayName", "description",
      "Description", "email", "Email">>

RECURSIVE AppendCandidates(_, _, _, _)
\* the loop over the candidate fields: a field of firstItem that is not a
\* key of the table is appended, until two fields have been found
AppendCandidates(fields, firstItem, info, found) ==
    IF Len(fields) = 0 \/ Len(found) >= 2 THEN found
    ELSE IF /\ fields[1] \in DOMAIN firstItem
            /\ fields[1] # info.PartitionKey
            /\ fields[1] # info.SortKey
         THEN AppendCandidates(Tail(fields), firstItem, info, Append(found, fields[1]))
         ELSE AppendCandidates(Tail(fields), firstItem, info, found)

\* a variant that takes a field of the first item whatever its name
additionalFieldsAnyName(items, info) ==
    IF Len(items) = 0 THEN <<>>
    ELSE IF DOMAIN items[1] = {} THEN <<>>
    ELSE <<CHOOSE k \in DOMAIN items[1] : TRUE>>

\* additionalFields: the preview columns of the results table, detected in
\* the first item of the first page
additionalFields(items, info) ==
    IF Len(items) = 0 THEN <<>>
    ELSE AppendCandidates(candidateFields, items[1], info, <<>>)

\* the buttons of the navigation row
loadPrevBtn == "< Previous (Ctrl+B)"
loadNextBtn == "Next > (Ctrl+N)"

\* the navigation row built with the results page: the previous button
\* always, the next button if the first result has a key
NavButtons(first) ==
    <<loadPrevBtn>> \o (IF first.LastEvaluatedKey # NilMap THEN <<loadNextBtn>> ELSE <<>>)

\* Flex.RemoveItem: the row without the button
RemoveItem(row, button) == SelectSeq(row, LAMBDA b : b # button)

\* a variant whose error branch leaves the loading modal among the pages
ApplyQueryResultKeepsLoading ==
    /\ uiloop = "idle"
    /\ Len(updates) > 0
    /\ updates[1].kind = "query"
    /\ updates' = Tail(updates)
    /\ IF updates[1].err
       THEN /\ pages' = AddPage(pages, "queryerror", TRUE)
            /\ UNCHANGED resultVars
       ELSE /\ pages' = AddPage(RemovePage(pages, "loading"), "queryresult", TRUE)
            /\ params' = updates[1].params
            /\ result' = updates[1].result
            /\ shared' = 1
            /\ currentPage' = 1
            /\ pageHistory' = <<PageStateOf("query", updates[1].result)>>
            /\ wireKey' = updates[1].wire
            /\ wireHistory' = <<updates[1].wire>>
            /\ navFlex' = NavButtons(updates[1].result)
    /\ focus' = TopPage(pages')
    /\ UNCHANGED <<uiloop, call, goroutines, sessionVars, itemVars>>
    /\ UNCHANGED <<fn, proc>>

\* the update queued by the query goroutine: the loading modal is removed;
\* an error modal, or the results page with page 1 as its history
ApplyQueryResult ==
    /\ uiloop = "idle"
    /\ Len(updates) > 0
    /\ updates[1].kind = "query"
    /\ updates' = Tail(updates)
    /\ IF updates[1].err
       THEN /\ pages' = AddPage(RemovePage(pages, "loading"), "queryerror", TRUE)
            /\ UNCHANGED resultVars
       ELSE /\ pages' = AddPage(RemovePage(pages, "loading"), "queryresult", TRUE)
            /\ params' = updates[1].params
            /\ result' = updates[1].result
            /\ shared' = 1
            /\ currentPage' = 1
            /\ pageHistory' = <<PageStateOf("query", updates[1].result)>>
            /\ wireKey' = updates[1].wire
            /\ wireHistory' = <<updates[1].wire>>
            /\ navFlex' = NavButtons(updates[1].result)
    /\ focus' = TopPage(pages')
    /\ UNCHANGED <<uiloop, call, goroutines, sessionVars, itemVars>>
    /\ UNCHANGED <<fn, proc>>

\* the update queued by the scan goroutine
ApplyScanResult ==
    /\ uiloop = "idle"
    /\ Len(updates) > 0
    /\ updates[1].kind = "scan"
    /\ updates' = Tail(updates)
    /\ LET removed == RemovePage(RemovePage(pages, "loadingscan"), "scanresult")
       IN  IF updates[1].err
           THEN /\ pages' = AddPage(removed, "scanerror", TRUE)
                /\ UNCHANGED resultVars
           ELSE /\ pages' = AddPage(removed, "scanresult", TRUE)
                /\ params' = updates[1].params
                /\ result' = updates[1].result
                /\ shared' = 1
                /\ currentPage' = 1
                /\ pageHistory' = <<PageStateOf("scan", updates[1].result)>>
                /\ wireKey' = updates[1].wire
                /\ wireHistory' = <<updates[1].wire>>
                /\ navFlex' = NavButtons(updates[1].result)
    /\ focus' = TopPage(pages')
    /\ UNCHANGED <<uiloop, call, goroutines, sessionVars, itemVars>>
    /\ UNCHANGED <<fn, proc>>

\* the OK button (or ESC) of the error modal of a query or scan
DismissError ==
    /\ uiloop = "idle"
    /\ focus \in {"queryerror", "scanerror"}
    /\ pages' = RemovePage(pages, focus)
    /\ focus' = TopPage(pages')
    /\ UNCHANGED <<uiloop, call, goroutines, updates, sessionVars, resultVars, itemVars>>
    /\ UNCHANGED <<fn, proc>>

(***************************************************************************)
(* createTableActionPage: the results page, of a query or of a scan.       *)
(***************************************************************************)
ResultsPages == {"queryresult", "scanresult"}

\* the kind of the results page that has the focus
ResultsKind == IF focus = "queryresult" THEN "query" ELSE "scan"

\* ESC on the results page
ResultsEsc ==
    /\ uiloop = "idle"
    /\ focus \in ResultsPages
    /\ pages' = RemovePage(pages, focus)
    /\ focus' = TopPage(pages')
    /\ DropResults
    /\ UNCHANGED <<uiloop, call, goroutines, updates, sessionVars, itemVars>>
    /\ UNCHANGED <<fn, proc>>

\* Ctrl+B on the results page: the page before, taken from the history
ResultsCtrlB ==
    /\ uiloop = "idle"
    /\ focus \in ResultsPages
    /\ IF currentPage > 1
       THEN /\ currentPage' = currentPage - 1
            /\ result' = ResultOfPageState(ResultsKind, pageHistory[currentPage'])
            /\ shared' = currentPage'
            /\ wireKey' = wireHistory[currentPage']
       ELSE UNCHANGED <<currentPage, result, shared, wireKey>>
    /\ UNCHANGED <<pages, focus, uiloop, call, goroutines, updates, sessionVars,
                   params, pageHistory, wireHistory, navFlex, itemVars>>
    /\ UNCHANGED <<fn, proc>>

\* a variant that asks for the next page without the sort key condition
NextPageInputNoSort(kind) ==
    IF kind = "query"
    THEN QueryInput(tableInfo.Name, tableInfo.PartitionKey, params.pkValue,
                    "", "", "", result.LastEvaluatedKey)
    ELSE ScanInput(tableInfo.Name, result.LastEvaluatedKey)

\* the request of the Ctrl+N handlers: the next page after the key of result
NextPageInput(kind) ==
    IF kind = "query"
    THEN QueryInput(tableInfo.Name, tableInfo.PartitionKey, params.pkValue,
                    params.sortKey, params.sortValue, params.cond,
                    result.LastEvaluatedKey)
    ELSE ScanInput(tableInfo.Name, result.LastEvaluatedKey)

\* a variant that calls the client whether result has a key or not
ResultsCtrlNAlways ==
    /\ uiloop = "idle"
    /\ focus \in ResultsPages
    /\ currentPage < MaxPages
    /\ uiloop' = "blocked"
    /\ call' = NextPageInput(ResultsKind)
    /\ UNCHANGED <<pages, focus, goroutines, updates, sessionVars, resultVars, itemVars>>
    /\ UNCHANGED <<fn, proc>>

\* Ctrl+N on the results page, up to the call of the client: if result has
\* a key the handler calls client.Query or client.Scan itself; without a
\* key the event is ignored
ResultsCtrlN ==
    /\ uiloop = "idle"
    /\ focus \in ResultsPages
    /\ IF result.LastEvaluatedKey # NilMap
       THEN /\ currentPage < MaxPages
            /\ uiloop' = "blocked"
            /\ call' = NextPageInput(ResultsKind)
       ELSE UNCHANGED <<uiloop, call>>
    /\ UNCHANGED <<pages, focus, goroutines, updates, sessionVars, resultVars, itemVars>>
    /\ UNCHANGED <<fn, proc>>

\* a variant that never appends the page fetched to the history
NextPageReturnNoAppend ==
    /\ uiloop = "blocked"
    /\ uiloop' = "idle"
    /\ call' = NoInput
    /\ \/ UNCHANGED resultVars
       \/ \E output \in Outputs(call) :
             /\ currentPage' = currentPage + 1
             /\ result' = QueryResultOf(output)
             /\ wireKey' = output.LastEvaluatedKey
             /\ shared' = 0
             /\ UNCHANGED <<params, pageHistory, wireHistory, navFlex>>
    /\ UNCHANGED <<pages, focus, goroutines, updates, sessionVars, itemVars>>
    /\ UNCHANGED <<fn, proc>>

\* a variant of the error branch that counts the page all the same
NextPageFailsAdvancing ==
    /\ currentPage' = currentPage + 1
    /\ UNCHANGED <<params, result, shared, pageHistory, wireKey, wireHistory, navFlex>>

\* the error branch of the Ctrl+N handlers: `return event`
NextPageFails == UNCHANGED resultVars

\* Ctrl+N on the results page, from the return of the client: on an error
\* the handler returns; else the page number grows, the page is appended to
\* the history if its number is new, and the page fetched is displayed
NextPageReturn ==
    /\ uiloop = "blocked"
    /\ uiloop' = "idle"
    /\ call' = NoInput
    /\ \/ NextPageFails
       \/ \E output \in Outputs(call) :
             LET nextResult == QueryResultOf(output)
             IN  /\ currentPage' = currentPage + 1
                 /\ IF currentPage' > Len(pageHistory)
                    THEN /\ pageHistory' = Append(pageHistory, PageStateOf(ResultsKind, nextResult))
                         /\ wireHistory' = Append(wireHistory, output.LastEvaluatedKey)
                         /\ shared' = currentPage'
                    ELSE /\ UNCHANGED <<pageHistory, wireHistory>>
                         /\ shared' = 0
                 /\ result' = nextResult
                 /\ wireKey' = output.LastEvaluatedKey
                 /\ navFlex' = IF nextResult.LastEvaluatedKey = NilMap
                                THEN RemoveItem(navFlex, loadNextBtn)
                                ELSE navFlex
                 /\ UNCHANGED params
    /\ UNCHANGED <<pages, focus, goroutines, updates, sessionVars, itemVars>>
    /\ UNCHANGED <<fn, proc>>

\* the schema fields the item has, in the order of SchemaFields
SchemaRows(schemaFields, item) ==
    LET present == SelectSeq(schemaFields, LAMBDA sf : sf \in DOMAIN item)
    IN  [i \in 1..Len(present) |-> [field |-> present[i], value |-> item[present[i]]]]

\* the item after delete(item, sf) for every schema field
WithoutSchemaFields(schemaFields, item) ==
    [k \in DOMAIN item \ Range(schemaFields) |-> item[k]]

\* Enter on row `row` of the results table: the item detail page
ResultsEnter(row) ==
    /\ uiloop = "idle"
    /\ focus \in ResultsPages
    /\ IF row > 0 /\ row <= Len(result.Items)
       THEN IF row > Len(result.RawItems)
            THEN \* result.RawItems[row-1]: index out of range
                 /\ uiloop' = "crashed"
                 /\ UNCHANGED <<pages, focus, result, pageHistory, itemVars>>
            ELSE LET item == result.Items[row]
                     rest == WithoutSchemaFields(tableInfo.SchemaFields, item)
                 IN  /\ \E o \in KeyOrders(DOMAIN rest) :
                            itemRows' = SchemaRows(tableInfo.SchemaFields, item)
                                \o [i \in 1..Len(o) |-> [field |-> o[i], value |-> rest[o[i]]]]
                     /\ rawItem' = result.RawItems[row]
                     /\ result' = [result EXCEPT !.Items[row] = rest]
                     /\ pageHistory' = IF shared > 0
                                       THEN [pageHistory EXCEPT ![shared].items[row] = rest]
                                       ELSE pageHistory
                     /\ pages' = AddPage(pages, "fullitem", TRUE)
                     /\ focus' = TopPage(pages')
                     /\ UNCHANGED <<uiloop, jsonField, written>>
       ELSE UNCHANGED <<uiloop, pages, focus, result, pageHistory, itemVars>>
    /\ UNCHANGED <<call, goroutines, updates, sessionVars, params, shared,
                   currentPage, wireKey, wireHistory, navFlex>>
    /\ UNCHANGED <<fn, proc>>

\* a variant that closes the results page together with the item page
ItemEscTwoLevels ==
    /\ KeyOn("fullitem")
    /\ pages' = RemovePage(RemovePage(RemovePage(pages, "fullitem"), "queryresult"), "scanresult")
    /\ focus' = TopPage(pages')
    /\ DropItem
    /\ UNCHANGED <<uiloop, call, goroutines, updates, sessionVars, resultVars,
                   jsonField, written>>
    /\ UNCHANGED <<fn, proc>>

\* ESC on the item detail page
ItemEsc ==
    /\ KeyOn("fullitem")
    /\ pages' = RemovePage(pages, "fullitem")
    /\ focus' = TopPage(pages')
    /\ DropItem
    /\ UNCHANGED <<uiloop, call, goroutines, updates, sessionVars, resultVars,
                   jsonField, written>>
    /\ UNCHANGED <<fn, proc>>

\* a variant that opens the JSON viewer for every row
ItemEnterAnyRow(row) ==
    /\ KeyOn("fullitem")
    /\ IF row > 0
       THEN /\ jsonField' = itemRows[row].field
            /\ pages' = AddPage(pages, "jsonview", TRUE)
            /\ focus' = TopPage(pages')
       ELSE UNCHANGED <<jsonField, pages, focus>>
    /\ UNCHANGED <<uiloop, call, goroutines, updates, sessionVars, resultVars,
                   itemRows, rawItem, written>>
    /\ UNCHANGED <<fn, proc>>

\* Enter on row `row` of the item table: the JSON viewer for a list or map
ItemEnter(row) ==
    /\ KeyOn("fullitem")
    /\ IF /\ row > 0
          /\ itemRows[row].field \in DOMAIN rawItem
          /\ rawItem[itemRows[row].field].K \in {"[]interface{}", "map[string]interface{}"}
       THEN /\ jsonField' = itemRows[row].field
            /\ pages' = AddPage(pages, "jsonview", TRUE)
            /\ focus' = TopPage(pages')
       ELSE UNCHANGED <<jsonField, pages, focus>>
    /\ UNCHANGED <<uiloop, call, goroutines, updates, sessionVars, resultVars,
                   itemRows, rawItem, written>>
    /\ UNCHANGED <<fn, proc>>

RECURSIVE SprintList(_)
\* fmt.Sprintf("%v", v) of a native value
Sprintv(v) ==
    CASE v.K = "string" -> v.V
      [] v.K = "int64" -> Join(FormatInt(v.V), "")
      [] v.K = "bool" -> IF v.V THEN "true" ELSE "false"
      [] v.K = "nil" -> "<nil>"
      [] v.K = "[]interface{}" -> "[" \o SprintList(v.V) \o "]"
      [] OTHER -> "?"

\* the elements of a slice as fmt prints them, separated by spaces
SprintList(l) ==
    IF Len(l) = 0 THEN ""
    ELSE IF Len(l) = 1 THEN Sprintv(l[1])
    ELSE Sprintv(l[1]) \o " " \o SprintList(Tail(l))

RECURSIVE ReplaceAll(_, _, _)
\* strings.ReplaceAll(s, old, new) for a one-character old
ReplaceAll(s, old, new) ==
    IF Len(s) = 0 THEN ""
    ELSE (IF Head(s) = old THEN new ELSE Head(s)) \o ReplaceAll(Tail(s), old, new)

\* a variant that leaves the key values in the file name as they are
saveFileNameAsIs(info, raw) ==
    (IF info.SortKey # ""
     THEN Sprintv(raw[info.PartitionKey]) \o "_" \o Sprintv(raw[info.SortKey])
     ELSE Sprintv(raw[info.PartitionKey])) \o ".json"

\* saveItemAsJSON: the file name made from the key values of the raw item
saveFileName(info, raw) ==
    LET pkValue == Sprintv(raw[info.PartitionKey])
        filename == IF info.SortKey # ""
                    THEN pkValue \o "_" \o Sprintv(raw[info.SortKey])
                    ELSE pkValue
    IN  ReplaceAll(ReplaceAll(ReplaceAll(filename, "/", "_"), " ", "_"), ":", "_")
            \o ".json"

\* Ctrl+D on the item detail page: saveItemAsJSON writes the raw item to a
\* file and shows a notice; os.WriteFile may fail
ItemCtrlD ==
    /\ KeyOn("fullitem")
    /\ \/ /\ written' = [name |-> saveFileName(tableInfo, rawItem), content |-> rawItem]
          /\ pages' = AddPage(pages, "savesuccess", TRUE)
       \/ /\ written' = NoFile
          /\ pages' = AddPage(pages, "saveerror", TRUE)
    /\ focus' = TopPage(pages')
    /\ UNCHANGED <<uiloop, call, goroutines, updates, sessionVars, resultVars,
                   itemRows, rawItem, jsonField>>
    /\ UNCHANGED <<fn, proc>>

\* a variant in which the notice closes the item detail page with it
DismissSaveNoticeClosesItem ==
    /\ uiloop = "idle"
    /\ focus \in {"savesuccess", "saveerror"}
    /\ pages' = RemovePage(RemovePage(pages, focus), "fullitem")
    /\ focus' = TopPage(pages')
    /\ written' = NoFile
    /\ DropItem
    /\ UNCHANGED <<uiloop, call, goroutines, updates, sessionVars, resultVars, jsonField>>
    /\ UNCHANGED <<fn, proc>>

\* OK on the notice of an export
DismissSaveNotice ==
    /\ uiloop = "idle"
    /\ focus \in {"savesuccess", "saveerror"}
    /\ pages' = RemovePage(pages, focus)
    /\ focus' = TopPage(pages')
    /\ written' = NoFile
    /\ UNCHANGED <<uiloop, call, goroutines, updates, sessionVars, resultVars,
                   itemRows, rawItem, jsonField>>
    /\ UNCHANGED <<fn, proc>>

\* ESC on the JSON viewer
JsonEsc ==
    /\ KeyOn("jsonview")
    /\ pages' = RemovePage(pages, "jsonview")
    /\ focus' = TopPage(pages')
    /\ jsonField' = ""
    /\ UNCHANGED <<uiloop, call, goroutines, updates, sessionVars, resultVars,
                   itemRows, rawItem, written>>
    /\ UNCHANGED <<fn, proc>>

(***************************************************************************)
(* The session.                                                            *)
(***************************************************************************)
Next ==
    \/ MainHelp
    \/ MainProfile
    \/ MainNewClient
    \/ MainTestConnection
    \/ MainRun
    \/ ListTablesReply
    \/ ApplyTableList
    \/ TableListQuit
    \/ \E row \in 0..Len(TableNames) : TableListEnter(row)
    \/ TableActionEsc
    \/ \E tab \in {0, 1} : TableActionSelectTab(tab)
    \/ TableActionToggleTab
    \/ \E text \in PkInputs : EditPartitionKey(text)
    \/ \E text \in SkInputs : EditSortKey(text)
    \/ \E c \in CondInputs : SelectCondition(c)
    \/ QueryButton
    \/ ScanButton
    \/ FetchReply
    \/ ApplyQueryResult
    \/ ApplyScanResult
    \/ DismissError
    \/ ResultsEsc
    \/ ResultsCtrlB
    \/ ResultsCtrlN
    \/ NextPageReturn
    \/ \E row \in 0..MaxItems : ResultsEnter(row)
    \/ ItemEsc
    \/ \E row \in 0..Len(itemRows) : ItemEnter(row)
    \/ JsonEsc
    \/ ItemCtrlD
    \/ DismissSaveNotice

Spec == Init /\ [][Next]_vars

\* The session under fair scheduling: a goroutine that has called the
\* backend gets its reply and queues its update (the backend answers or
\* fails every request), and the UI loop applies the update at the head of
\* its queue (Application.Run draws the updates queued by QueueUpdateDraw).
Fairness ==
    /\ WF_vars(FetchReply)
    /\ WF_vars(ListTablesReply)
    /\ WF_vars(ApplyTableList)
    /\ WF_vars(ApplyQueryResult)
    /\ WF_vars(ApplyScanResult)

LiveSpec == Init /\ [][Next]_vars /\ Fairness

(***************************************************************************)
(* Functions of the program on their own: the session stays as it starts,  *)
(* a function is applied to arguments drawn from small sets.               *)
(***************************************************************************)
uiVars == <<pages, focus, uiloop, call, goroutines, updates, sessionVars,
            resultVars, itemVars, proc>>

\* the attribute names of the first items the preview detection is tried on
PreviewNames == Range(candidateFields) \cup {"id", "notes"}

\* the tables the preview detection is tried on: a key may bear the name of
\* a candidate field
PreviewTables ==
    {[Name |-> "t", PartitionKey |-> "id", SortKey |-> ""],
     [Name |-> "t", PartitionKey |-> "id", SortKey |-> "name"],
     [Name |-> "t", PartitionKey |-> "title", SortKey |-> ""]}

\* the detection of the preview columns for a first page
CallAdditionalFields ==
    /\ fn = NoCall
    /\ \E names \in SUBSET PreviewNames, info \in PreviewTables, n \in 0..1 :
          LET items == [i \in 1..n |-> [k \in names |-> "v"]]
          IN  fn' = [name |-> "additionalFields", args |-> <<items, info>>,
                     value |-> additionalFields(items, info)]
    /\ UNCHANGED uiVars

\* the longest text of a Number the conversion is tried on
MaxText == 4

\* the characters of these texts
NumberChars == {"0", "1", "2", "3", "4", ".", "-", "a", "b", "c"}

\* the conversion of a Number to a native value
CallAttributeValueToInterface ==
    /\ fn = NoCall
    /\ \E n \in 0..MaxText : \E cs \in [1..n -> NumberChars] :
          fn' = [name |-> "attributeValueToInterface", args |-> <<AVN(cs)>>,
                 value |-> attributeValueToInterface(AVN(cs))]
    /\ UNCHANGED uiVars

\* the table names an account may have
AccountTables == {"users", "logs", "tmp"}

\* for every table of a set an order in which getTableInfo may list its
\* schema fields
FieldOrdersOf(S) ==
    {f \in [S -> UNION {KeyOrders(SchemaFieldSet(n)) : n \in S}] :
        \A n \in S : f[n] \in KeyOrders(SchemaFieldSet(n))}

\* a load of the table list: the service lists some tables in some order,
\* and the describe calls of some of them fail
CallListTables ==
    /\ fn = NoCall
    /\ \E S \in SUBSET AccountTables, listFails \in BOOLEAN :
       \E names \in KeyOrders(S), failing \in SUBSET S, fields \in FieldOrdersOf(S) :
          /\ listFails => failing = {}
          /\ fn' = [name |-> "ListTables", args |-> <<listFails, names, failing>>,
                    value |-> ClientListTables(listFails, names, failing, fields)]
    /\ UNCHANGED uiVars

\* the number of items the service has for a request made on its own
Available == 17

\* Client.Query and Client.Scan, for a first page and for a page after a
\* key: the request made and the result returned
CallFetch ==
    /\ fn = NoCall
    /\ \E kind \in {"Query", "Scan"}, name \in Range(TableNames), sk \in SkInputs,
          first \in BOOLEAN :
          LET info == [PartitionKey |-> DescribeTable(name).HASH,
                       SortKey |-> DescribeTable(name).RANGE]
              startKey == IF first THEN NilMap
                          ELSE LastKeyOf(KeyOf(name, RawItemOf(name, 1)))
              input == IF kind = "Query"
                       THEN QueryInput(name, info.PartitionKey, "u/1",
                                       IF sk = "" THEN "" ELSE info.SortKey,
                                       IF info.SortKey = "" THEN "" ELSE sk, ">=", startKey)
                       ELSE ScanInput(name, startKey)
          IN  \E output \in OutputsOf(input, Available) :
                 fn' = [name |-> kind, args |-> <<name, sk, startKey>>,
                        value |-> [request |-> input, result |-> QueryResultOf(output)]]
    /\ UNCHANGED uiVars

\* the most keys of a Map and elements of a List the display is tried on
MaxKeys == 2

\* the names of these keys
MapKeys == {"a", "b", "c"}

\* the scalar values the display is tried on
ScalarValues == {AVS("x"), AVN(<<"1">>), AVBOOL(TRUE), AVNULL}

\* the Maps of scalar values
ScalarMaps ==
    UNION {{AVM(m) : m \in [K -> ScalarValues]} :
           K \in {K \in SUBSET MapKeys : Cardinality(K) <= MaxKeys}}

\* the Lists of up to MaxKeys values of a set
ListsOf(S) == UNION {{AVL(l) : l \in [1..n -> S]} : n \in 0..MaxKeys}

\* the values the display is tried on: scalars, Maps and Lists of scalars,
\* Lists of Maps of one value, and a Map holding a Map
DisplayValues ==
    ScalarValues \cup ScalarMaps \cup ListsOf(ScalarValues)
        \cup ListsOf({m \in ScalarMaps : \A k \in DOMAIN m.V : m.V[k] = AVS("x")})
        \cup {AVM([a |-> m]) : m \in {m \in ScalarMaps : \A k \in DOMAIN m.V : m.V[k] = AVNULL}}

\* two calls of formatAttributeValue on the same value
CallFormatAttributeValue ==
    /\ fn = NoCall
    /\ \E v \in DisplayValues : \E first, second \in Displays(v) :
          fn' = [name |-> "formatAttributeValue", args |-> <<v>>,
                 value |-> <<first, second>>]
    /\ UNCHANGED uiVars

FnNext ==
    \/ CallFormatAttributeValue
    \/ CallAdditionalFields
    \/ CallFetch
    \/ CallListTables
    \/ CallAttributeValueToInterface

\* the program as started by default
FnInit == Init /\ proc = Started(FALSE, "dev")

FnSpec == FnInit /\ [][FnNext]_vars

(***************************************************************************)
(* Properties of the pagination of the results page.                       *)
(***************************************************************************)
\* the results page has the focus and the UI loop waits for a key
OnResults == uiloop = "idle" /\ focus \in ResultsPages

\* the requests that have been sent to the backend and not been answered
Outstanding == {g.input : g \in goroutines} \cup (IF uiloop = "blocked" THEN {call} ELSE {})

\* result shows page n of the history
ShowsHistoryPage(r, n) ==
    /\ r.Items = pageHistory[n].items
    /\ r.LastEvaluatedKey = pageHistory[n].lastEvaluatedKey

\* C1: on the results page, when the current page has a successor in the
\* history, next (Ctrl+N) moves to the successor, the page number growing by
\* one, and sends no request to the backend.
C1_NextFromHistory ==
    [][(OnResults /\ currentPage < Len(pageHistory) /\ ResultsCtrlN)
          => /\ currentPage' = currentPage + 1
             /\ uiloop' = "idle"
             /\ Outstanding' = Outstanding]_vars

\* C2: pagination symmetry: a next that lands on a page number the history
\* holds already (after previous) displays that page of the history again,
\* and the history is left as it was.
C2_PaginationSymmetry ==
    [][(uiloop = "blocked" /\ currentPage < Len(pageHistory))
          => /\ currentPage' = currentPage + 1
             /\ ShowsHistoryPage(result', currentPage')
             /\ pageHistory' = pageHistory]_vars

\* C3: previous (Ctrl+B) with a page number above 1 lowers it by exactly one
\* and displays the page the history holds at that number, without a request
\* to the backend; at page 1 it changes neither the page number, nor the
\* history, nor the page displayed.
C3_Previous ==
    [][ResultsCtrlB
          => /\ Outstanding' = Outstanding
             /\ uiloop' = "idle"
             /\ pageHistory' = pageHistory
             /\ IF currentPage > 1
                THEN /\ currentPage' = currentPage - 1
                     /\ ShowsHistoryPage(result', currentPage')
                ELSE /\ currentPage' = currentPage
                     /\ result' = result]_vars

\* C3 witness: page 1 of a history of two pages is displayed from the
\* history, which only previous does.
C3_Witness ==
    /\ OnResults
    /\ Len(pageHistory) = 2
    /\ currentPage = 1
    /\ shared = 1
    /\ Len(result.Items) > 0

\* C4: no more pages: while the page displayed has no continuation key, next
\* (Ctrl+N) sends no request to the backend, does not advance the page
\* number and leaves the history and the page displayed as they are; the UI
\* loop never waits for a next page that no key announces.
C4_NoMorePages ==
    /\ [](uiloop = "blocked" =>
            /\ result.LastEvaluatedKey # NilMap
            /\ call.ExclusiveStartKey # NilMap)
    /\ [][(OnResults /\ result.LastEvaluatedKey = NilMap /\ ResultsCtrlN)
            => /\ UNCHANGED <<currentPage, pageHistory, result>>
               /\ uiloop' = "idle"
               /\ Outstanding' = Outstanding]_vars

\* C4 witness: the second page has been fetched and has no continuation key.
C4_Witness ==
    /\ OnResults
    /\ currentPage = 2
    /\ Len(pageHistory) = 2
    /\ result.LastEvaluatedKey = NilMap

\* C5: the start key of the request of a next page is exactly the
\* LastEvaluatedKey the backend returned for the page displayed: the same
\* attribute names, values and types.
C5_TokenPassThrough ==
    uiloop = "blocked" => call.ExclusiveStartKey = wireKey

(***************************************************************************)
(* Properties of the requests and of their completion.                     *)
(***************************************************************************)
\* C6: no key condition that refers to an unbound value is sent to the
\* backend: every value placeholder of the key condition of an outstanding
\* query (in particular the second bound of between) is bound.
C6_BetweenNeedsTwoValues ==
    \A input \in Outstanding :
        input.Op = "Query" =>
            (Range(input.KeyConditionExpression) \cap ValuePlaceholders)
                \subseteq DOMAIN input.ExpressionAttributeValues

\* C7: the UI loop is never blocked waiting for the backend: every request
\* is made by a goroutine.
C7_LoopNeverBlocked ==
    uiloop # "blocked"

\* the step handles the failure of a query or scan: the update of a failed
\* goroutine is applied, or the client call of a key handler returns an error
FetchFailureHandled ==
    \/ /\ uiloop = "idle"
       /\ Len(updates) > 0
       /\ updates[1].kind \in {"query", "scan"}
       /\ updates[1].err
       /\ updates' = Tail(updates)
    \/ /\ uiloop = "blocked"
       /\ uiloop' = "idle"
       /\ currentPage' = currentPage

\* C8: every error of a query or scan, of the first page or of a next page,
\* is shown to the user as a notice (an error modal has the focus).
C8_ErrorsAreShown ==
    [][FetchFailureHandled => focus' \in {"queryerror", "scanerror"}]_vars

(***************************************************************************)
(* Properties of the navigation.                                           *)
(***************************************************************************)
\* the depth of a screen below the table list
Level(page) ==
    CASE page = "tablelist" -> 0
      [] page = "tableaction" -> 1
      [] page \in ResultsPages -> 2
      [] page = "fullitem" -> 3
      [] page = "jsonview" -> 4
      [] OTHER -> 0 - 1

\* the back signal (ESC) on the table action, results, item detail or JSON
\* viewer page
BackSignal == TableActionEsc \/ ResultsEsc \/ ItemEsc \/ JsonEsc

\* C9: on every screen below the table list the back signal is accepted and
\* closes exactly one level (JSON viewer -> item detail -> results -> table
\* action -> table list), so no screen is a dead end.
C9_BackNavigation ==
    [][(uiloop = "idle" /\ Level(focus) > 0)
          => /\ ENABLED BackSignal
             /\ BackSignal => /\ Level(focus') = Level(focus) - 1
                              /\ uiloop' = "idle"]_vars

\* C9 witness: the JSON viewer, four levels below the table list, is open.
C9_Witness ==
    /\ uiloop = "idle"
    /\ focus = "jsonview"
    /\ HasPage(pages, "fullitem")
    /\ HasPage(pages, "tableaction")

\* C10: the item detail page shows every attribute of the item exactly once,
\* the schema fields the item has first, in the order of SchemaFields.
C10_ItemDetailRows ==
    HasPage(pages, "fullitem") =>
        LET present == SelectSeq(tableInfo.SchemaFields, LAMBDA sf : sf \in DOMAIN rawItem)
        IN  /\ {itemRows[i].field : i \in 1..Len(itemRows)} = DOMAIN rawItem
            /\ Len(itemRows) = Cardinality(DOMAIN rawItem)
            /\ \A i \in 1..Len(present) : itemRows[i].field = present[i]

(***************************************************************************)
(* Properties of the item detail page.                                     *)
(***************************************************************************)
\* the native value is a list or a map
IsListOrMap(v) == v.K \in {"[]interface{}", "map[string]interface{}"}

\* C11: Enter on a row of the item detail page opens the JSON viewer for the
\* field of that row if and only if the raw value of the field is a list or
\* a map; on any other row it changes nothing; ESC on the JSON viewer gives
\* the focus back to the item detail page with the same rows and raw item.
C11_JsonViewForListOrMap ==
    [][/\ \A row \in 0..Len(itemRows) :
             ItemEnter(row) =>
                IF row > 0 /\ IsListOrMap(rawItem[itemRows[row].field])
                THEN /\ focus' = "jsonview"
                     /\ jsonField' = itemRows[row].field
                     /\ HasPage(pages', "fullitem")
                     /\ UNCHANGED <<itemRows, rawItem, resultVars>>
                ELSE UNCHANGED vars
       /\ JsonEsc => /\ focus' = "fullitem"
                     /\ ~HasPage(pages', "jsonview")
                     /\ UNCHANGED <<itemRows, rawItem, resultVars, uiloop>>]_vars

\* C11 witness: the JSON viewer shows a field of the open item whose raw
\* value is a map, while the item has scalar fields too.
C11_Witness ==
    /\ focus = "jsonview"
    /\ rawItem[jsonField].K = "map[string]interface{}"
    /\ \E k \in DOMAIN rawItem : ~IsListOrMap(rawItem[k])

\* the i-th character of a string
CharAt(s, i) == SubSeq(s, i, i)

\* clean is raw with every "/", space and ":" replaced by "_"
IsCleaned(raw, clean) ==
    /\ Len(clean) = Len(raw)
    /\ \A i \in 1..Len(raw) :
          CharAt(clean, i) = IF CharAt(raw, i) \in {"/", " ", ":"} THEN "_"
                             ELSE CharAt(raw, i)

\* the key of a record of the table as text: the partition-key value,
\* joined by "_" with the sort-key value if the table has a sort key
KeyText(info, rec) ==
    IF info.SortKey # ""
    THEN formatAttributeValue(rec[info.PartitionKey]) \o "_"
            \o formatAttributeValue(rec[info.SortKey])
    ELSE formatAttributeValue(rec[info.PartitionKey])

\* C12: a successful export has written a file that holds the full raw item
\* (every attribute of the record of the table, whatever the item detail
\* page has done to the display item) and whose name is the key text of the
\* record with every "/", space and ":" replaced by "_", followed by
\* ".json".
C12_ExportFile ==
    focus = "savesuccess" =>
        \E i \in 1..MaxItems :
            LET rec == RawItemOf(tableInfo.Name, i)
                n == Len(written.name)
            IN  /\ written.content = NativeItem(rec)
                /\ n > 5
                /\ SubSeq(written.name, n - 4, n) = ".json"
                /\ IsCleaned(KeyText(tableInfo, rec), SubSeq(written.name, 1, n - 5))

\* C12 witness: the item u/1 of table users, opened a second time (its
\* display item has lost the schema fields), has been exported with all its
\* attributes to u_1_7.json.
C12_Witness ==
    /\ focus = "savesuccess"
    /\ written.name = "u_1_7.json"
    /\ DOMAIN written.content = {"id", "ts", "tags"}
    /\ Len(itemRows) = 1

(***************************************************************************)
(* Properties of the functions.                                            *)
(***************************************************************************)
\* the preference list of the specification, in its priority
PreferenceList == <<"title", "name", "displayName", "description", "email">>

\* the elements of seq that are in S, in the order of seq
Restrict(seq, S) == SelectSeq(seq, LAMBDA x : x \in S)

\* the first n elements of seq, or all if it has fewer
FirstN(seq, n) == SubSeq(seq, 1, IF Len(seq) < n THEN Len(seq) ELSE n)

\* the names of the first item of a call of additionalFields that may be
\* chosen: it has them and they are no key of the table
Eligible(items, info) ==
    IF Len(items) = 0 THEN {}
    ELSE DOMAIN items[1] \ {info.PartitionKey, info.SortKey}

\* C13 as stated: the preview columns are the first two names of the list
\* title, name, displayName, description, email that the first item has and
\* that are no key column; no other attribute is ever chosen.
C13_PreviewFromFiveNames ==
    fn.name = "additionalFields" =>
        fn.value = FirstN(Restrict(PreferenceList, Eligible(fn.args[1], fn.args[2])), 2)

\* C13 corrected: the preview columns are the first two names of the list
\* title, Title, name, Name, displayName, description, Description, email,
\* Email (in this priority, exact match) that the first item of the first
\* page has and that are no key column; no other attribute is ever chosen,
\* and an item with name and email but neither title nor description (in
\* either spelling) nor Name nor displayName gives exactly name, email.
C13_PreviewFromCandidates ==
    fn.name = "additionalFields" =>
        LET eligible == Eligible(fn.args[1], fn.args[2])
        IN  /\ fn.value = FirstN(Restrict(candidateFields, eligible), 2)
            /\ Len(fn.value) <= 2
            /\ Range(fn.value) \subseteq Range(candidateFields) \cap eligible
            /\ ({"name", "email"} \subseteq eligible
                  /\ eligible \cap {"title", "Title", "Name", "displayName",
                                     "description", "Description"} = {})
                  => fn.value = <<"name", "email">>

\* C13 witness: a first item with name, email and attributes outside the
\* list has given the columns name, email.
C13_Witness ==
    /\ fn.name = "additionalFields"
    /\ Len(fn.args[1]) = 1
    /\ DOMAIN fn.args[1][1] = {"id", "notes", "name", "email", "Email"}
    /\ fn.value = <<"name", "email">>

RECURSIVE Pow10(_)
Pow10(n) == IF n = 0 THEN 1 ELSE 10 * Pow10(n - 1)

\* the text is an integer in decimal notation: digits after an optional sign
IntegerText(cs) ==
    \E k \in 0..1 :
        /\ Len(cs) > k
        /\ k = 1 => cs[1] \in {"-", "+"}
        /\ \A i \in (k + 1)..Len(cs) : cs[i] \in {"0", "1", "2", "3", "4", "5", "6", "7", "8", "9"}

\* the text is a decimal with a point: digits and one point after an
\* optional sign, with a digit at least
DecimalText(cs) ==
    \E k \in 0..1 :
        /\ k = 1 => Len(cs) > 0 /\ cs[1] \in {"-", "+"}
        /\ Cardinality({i \in (k + 1)..Len(cs) : cs[i] = "."}) = 1
        /\ \E i \in (k + 1)..Len(cs) : cs[i] # "."
        /\ \A i \in (k + 1)..Len(cs) :
              cs[i] \in {".", "0", "1", "2", "3", "4", "5", "6", "7", "8", "9"}

\* the text denotes the number num / den (den a power of ten): the digit at
\* place i weighs ten to the number of digits behind it
Denotes(cs, num, den) ==
    LET digitAt == {i \in 1..Len(cs) : cs[i] \notin {"-", "+", "."}}
        behind(i) == Cardinality({j \in digitAt : j > i})
        fraction == Cardinality({j \in digitAt : \E p \in 1..Len(cs) : cs[p] = "." /\ p < j})
        weights == [i \in digitAt |-> DigitValue(cs[i]) * Pow10(behind(i))]
        RECURSIVE Sum(_)
        Sum(S) == IF S = {} THEN 0
                  ELSE LET i == CHOOSE x \in S : TRUE IN weights[i] + Sum(S \ {i})
        magnitude == Sum(digitAt)
    IN  (IF Len(cs) > 0 /\ cs[1] = "-" THEN 0 - magnitude ELSE magnitude) * den
            = num * Pow10(fraction)

\* C14: the native value of a Number is the integer its text denotes if the
\* text is an integer, else the float its text denotes if the text is a
\* decimal, else the text itself, unchanged; a value is returned for every
\* text.
C14_NumberFidelity ==
    fn.name = "attributeValueToInterface" =>
        LET cs == fn.args[1].V
        IN  /\ cs = <<"4", "2">> => fn.value = GoInt64(42)
            /\ cs = <<"a", "b", "c">> => fn.value = GoString("abc")
            /\ IF IntegerText(cs)
               THEN fn.value.K = "int64" /\ Denotes(cs, fn.value.V, 1)
               ELSE IF DecimalText(cs)
               THEN /\ fn.value.K = "float64"
                    /\ fn.value.V.e <= 0
                    /\ Denotes(cs, fn.value.V.m, Pow10(0 - fn.value.V.e))
               ELSE fn.value = GoString(Join(cs, ""))

\* C14 witness: the text 3.14 has become the float 314 * 10^-2.
C14_Witness ==
    /\ fn.name = "attributeValueToInterface"
    /\ fn.args[1].V = <<"3", ".", "1", "4">>
    /\ fn.value = GoFloat64([m |-> 314, e |-> 0 - 2])

\* C15: when the listing call succeeds, Client.ListTables returns no error
\* whichever describe calls fail, and its result holds exactly one TableInfo
\* for every listed table whose describe call succeeded and none for any
\* other table.
C15_FailedDescribeOmitted ==
    (fn.name = "ListTables" /\ ~fn.args[1]) =>
        LET names == fn.args[2]
            failing == fn.args[3]
            listed == fn.value.tables
        IN  /\ ~fn.value.err
            /\ \A n \in Range(names) :
                  Cardinality({i \in 1..Len(listed) : listed[i].Name = n})
                      = IF n \in failing THEN 0 ELSE 1
            /\ \A i \in 1..Len(listed) : listed[i].Name \in Range(names) \ failing

\* C15 witness: of three listed tables the describe call of one has failed
\* and the two others are in the result.
C15_Witness ==
    /\ fn.name = "ListTables"
    /\ Len(fn.args[2]) = 3
    /\ fn.args[3] = {"logs"}
    /\ Len(fn.value.tables) = 2

\* C16: with the flag -help the program prints the usage and exits 0 with
\* no check passed; otherwise a profile other than dev and prod never gets
\* past the profile check, which exits non-zero with no backend call made;
\* otherwise an exit is non-zero, after the failure of the client or of the
\* connection; and the application runs only after the four checks have
\* passed, in their order.
C16_StartupOrder ==
    LET valid == proc.profile \in {"dev", "prod"}
    IN  /\ proc.pc \in {"profile", "client", "connect", "app"} => ~proc.help
        /\ proc.pc \in {"client", "connect", "app"} => valid
        /\ proc.pc \in {"help", "profile", "client"} => proc.backend = 0
        /\ proc.pc = "exit" =>
              IF proc.help
              THEN proc.code = 0 /\ proc.out = "usage" /\ proc.passed = <<>>
                   /\ proc.backend = 0
              ELSE IF ~valid
              THEN proc.code # 0 /\ proc.passed = <<"help">> /\ proc.backend = 0
              ELSE /\ proc.code # 0
                   /\ \/ proc.passed = <<"help", "profile">> /\ proc.backend = 0
                      \/ proc.passed = <<"help", "profile", "client">>
        /\ uiloop # "notrunning" =>
              /\ proc.pc = "run"
              /\ proc.passed = <<"help", "profile", "client", "connect">>

\* C16 witness: started without -help and with the profile test, the
\* program has exited with code 1 and has made no backend call.
C16_Witness ==
    /\ proc.pc = "exit"
    /\ ~proc.help
    /\ proc.profile = "test"
    /\ proc.code = 1
    /\ proc.backend = 0

\* the placeholders of attribute names an expression may refer to
NamePlaceholders == {"#pk", "#sk"}

\* the queries sent to the backend and not answered, each with the
\* parameters it was made from
QueryRequests ==
    {[input |-> g.input, params |-> g.params] : g \in {h \in goroutines : h.kind = "query"}}
        \cup (IF uiloop = "blocked" /\ call.Op = "Query"
              THEN {[input |-> call, params |-> params]} ELSE {})

\* C17: the key condition of every query starts with the equality of the
\* partition key through placeholders, has a sort-key clause if and only if
\* a sort-key value is present, and refers to exactly the placeholder names
\* and values the request binds.
C17_KeyConditionBinding ==
    \A q \in QueryRequests :
        LET e == q.input.KeyConditionExpression
        IN  /\ SubSeq(e, 1, 3) = <<"#pk", "=", ":pk">>
            /\ ("#sk" \in Range(e)) <=> (q.params.sortValue # "")
            /\ Range(e) \cap NamePlaceholders = DOMAIN q.input.ExpressionAttributeNames
            /\ Range(e) \cap ValuePlaceholders = DOMAIN q.input.ExpressionAttributeValues

\* C18: every request Client.Query and Client.Scan make, for a first page
\* and for a page after a key, has the limit 15, and the page returned,
\* which is what the history holds, has at most 15 items.
C18_PageSize ==
    fn.name \in {"Query", "Scan"} =>
        /\ fn.value.request.Limit = 15
        /\ Len(fn.value.result.Items) <= 15
        /\ Len(fn.value.result.RawItems) <= 15

\* C18 witness: a scan after a key, of a table that has more items, has
\* returned a page of 15 items.
C18_Witness ==
    /\ fn.name = "Scan"
    /\ fn.args[3] # NilMap
    /\ Available > 15
    /\ Len(fn.value.result.Items) = 15

(***************************************************************************)
(* Properties of the items held by the results page.                       *)
(***************************************************************************)
\* a results page is among the pages
ResultsOpen == HasPage(pages, "queryresult") \/ HasPage(pages, "scanresult")

\* C19: while a results page is open, every page of the history stays as it
\* was appended, items and key, whatever the step: next, previous, the
\* selection of a row, the item detail page, the JSON viewer, the export.
C19_HistoryImmutable ==
    [][(ResultsOpen /\ ResultsOpen') =>
          /\ Len(pageHistory') >= Len(pageHistory)
          /\ \A n \in 1..Len(pageHistory) : pageHistory'[n] = pageHistory[n]]_vars

\* C20: Enter on an item of the results page leaves the item as it was, in
\* the page on display and in the history.
C20_ItemUnchangedByDetail ==
    [][\A row \in 0..MaxItems :
          ResultsEnter(row) => (result' = result /\ pageHistory' = pageHistory)]_vars

\* C21: on a results page the page on display holds one raw item for each
\* display item, of the same record (the raw item has every attribute the
\* display item shows), and Enter on a row never fails.
C21_RawItemPerDisplayItem ==
    /\ uiloop # "crashed"
    /\ OnResults =>
          /\ Len(result.RawItems) = Len(result.Items)
          /\ \A i \in 1..Len(result.Items) :
                DOMAIN result.Items[i] \subseteq DOMAIN result.RawItems[i]

(***************************************************************************)
(* Properties of the submits and of the requests in flight.                *)
(***************************************************************************)
\* C22: every next-page request of a query is made for the table and with
\* the partition-key value, sort-key value and operator of the submit that
\* made the history, which are those the form below the results page still
\* holds, and with the key of the page on display.
C22_ParamsFrozen ==
    (uiloop = "blocked" /\ call.Op = "Query") =>
        LET submitted == QueryParams(tableInfo, form)
        IN  /\ params = submitted
            /\ call = QueryInput(tableInfo.Name, tableInfo.PartitionKey,
                                 submitted.pkValue, submitted.sortKey,
                                 submitted.sortValue, submitted.cond,
                                 result.LastEvaluatedKey)

\* C22 witness: a next-page request of a query submitted with a
\* partition-key value and a sort-key value.
C22_Witness ==
    /\ uiloop = "blocked"
    /\ call.Op = "Query"
    /\ form.pk = "u1"
    /\ form.sk = "7"
    /\ ":sk" \in DOMAIN call.ExpressionAttributeValues
    /\ call.ExclusiveStartKey # NilMap

\* the step shows the result of a submit: the update of a query or scan
\* goroutine that has not failed is applied
SubmitCompletes ==
    /\ uiloop = "idle"
    /\ Len(updates) > 0
    /\ updates[1].kind \in {"query", "scan"}
    /\ ~updates[1].err
    /\ updates' = Tail(updates)

\* C23: the fetch of a submit is issued without a start key, and when its
\* result is shown the history is new: it has exactly one page, that
\* result, the page number is 1, and the page on display is that result.
C23_FirstPage ==
    /\ [](\A g \in goroutines :
            g.kind \in {"query", "scan"} => g.input.ExclusiveStartKey = NilMap)
    /\ [][SubmitCompletes =>
            /\ Len(pageHistory') = 1
            /\ pageHistory'[1].items = updates[1].result.Items
            /\ pageHistory'[1].lastEvaluatedKey = updates[1].result.LastEvaluatedKey
            /\ currentPage' = 1
            /\ result' = updates[1].result
            /\ focus' \in ResultsPages]_vars

\* C23 witness: the results page shows page 1 of a history of one page
\* that has items.
C23_Witness ==
    /\ OnResults
    /\ currentPage = 1
    /\ Len(pageHistory) = 1
    /\ Len(pageHistory[1].items) > 0

\* the goroutines of a slot: the load of the table list, or the query or
\* scan and its next pages
InFlight(kinds) == {g \in goroutines : g.kind \in kinds}

\* C24: at most one request of the table list load is in flight, and at
\* most one of the current query or scan, the next-page fetches of the key
\* handlers included; while one is in flight no submit and no next-page
\* fetch can be made.
C24_OneInFlightPerSlot ==
    /\ Cardinality(InFlight({"list"})) <= 1
    /\ Cardinality(InFlight({"query", "scan"}))
            + (IF uiloop = "blocked" THEN 1 ELSE 0) <= 1
    /\ (InFlight({"query", "scan"}) # {} \/ uiloop = "blocked") =>
            /\ ~ENABLED QueryButton
            /\ ~ENABLED ScanButton
            /\ ~OnResults

\* C24 witness: the query of a submit is in flight and the loading modal
\* has the focus.
C24_Witness ==
    /\ InFlight({"query"}) # {}
    /\ focus = "loading"
    /\ uiloop = "idle"

\* the loading modal of a query or of a scan
LoadingPage(kind) == IF kind = "query" THEN "loading" ELSE "loadingscan"

\* C25: no completion is ever stale. While the request of a submit is in
\* flight, and until its completion is applied, the loading modal of that
\* submit keeps the focus, so neither a newer submit can be made nor the
\* screen be left: the completion applied is that of the most recent
\* submit, for the table and the values the form still holds, no other
\* completion is waiting and no results page is open; and a query results
\* page shows the result of the submit the form still holds.
C25_CompletionIsCurrent ==
    /\ \A g \in InFlight({"query", "scan"}) :
          /\ focus = LoadingPage(g.kind)
          /\ g.input.TableName = tableInfo.Name
          /\ g.kind = "query" => g.params = QueryParams(tableInfo, form)
          /\ updates = <<>>
    /\ \A i \in 1..Len(updates) :
          updates[i].kind \in {"query", "scan"} =>
              /\ Len(updates) = 1
              /\ focus = LoadingPage(updates[i].kind)
              /\ updates[i].kind = "query" => updates[i].params = QueryParams(tableInfo, form)
              /\ ~ResultsOpen
    /\ HasPage(pages, "queryresult") => params = QueryParams(tableInfo, form)

\* C25 witness: the completion of a query submitted with values in the form
\* has arrived and waits to be applied.
C25_Witness ==
    /\ Len(updates) = 1
    /\ updates[1].kind = "query"
    /\ ~updates[1].err
    /\ updates[1].params.pkValue = "u1"
    /\ uiloop = "idle"

\* the session state: what the pages show and the closures of the pages hold
SessionState == <<pages, focus, sessionVars, resultVars, itemVars>>

\* a goroutine ends in the step
GoroutineEnds == \E g \in goroutines : goroutines' = goroutines \ {g}

\* C26: a goroutine only posts: the step in which it ends leaves the
\* session state (the table list, the history, the page number, the result
\* on display among it) as it is and appends one update to the queue; and
\* every step that changes the session state is a step of the UI loop,
\* which is running and handles one event, update or return at a time.
C26_StateOwnedByLoop ==
    [][/\ GoroutineEnds =>
             /\ UNCHANGED SessionState
             /\ UNCHANGED <<uiloop, call>>
             /\ Len(updates') = Len(updates) + 1
             /\ SubSeq(updates', 1, Len(updates)) = updates
       /\ (SessionState' # SessionState /\ uiloop # "notrunning") =>
             /\ uiloop \in {"idle", "blocked"}
             /\ ~GoroutineEnds]_vars

\* C26 witness: the goroutine of main has ended with the tables described
\* and its update waits in the queue; the table list is still empty.
C26_Witness ==
    /\ Len(updates) = 1
    /\ updates[1].kind = "list"
    /\ ~updates[1].err
    /\ tables = <<>>
    /\ Len(updates[1].tableInfos) = Len(TableNames)

(***************************************************************************)
(* Properties of the table list and of the form.                           *)
(***************************************************************************)
\* C27: Enter on the table list opens the table action page only on the row
\* of a table of the list that has been loaded, and for that table; on the
\* header row, and on any row while the list is empty (the load has not
\* completed, has failed or has found no table), it changes nothing.  Away
\* from the table list the table in use is always one of the loaded list.
C27_EnterNeedsLoadedTable ==
    /\ [](focus \notin {"", "tablelist"} =>
             \E row \in 1..Len(tables) : tableInfo = tables[row])
    /\ [][\A row \in 0..Len(TableNames) :
             TableListEnter(row) =>
                IF row > 0 /\ row <= Len(tables)
                THEN focus' = "tableaction" /\ tableInfo' = tables[row]
                ELSE UNCHANGED vars]_vars

\* C27 witness: the load has ended without a table (it failed or found
\* none) and the table list, still empty, has the focus.
C27_Witness ==
    /\ uiloop = "idle"
    /\ focus = "tablelist"
    /\ goroutines = {}
    /\ updates = <<>>
    /\ tables = <<>>

\* C28: the values entered in the query form (partition-key value,
\* sort-key value, operator) survive a change of tab: selecting a tab or
\* switching to the other tab leaves them as they are, so that they are
\* shown again when the Query tab is shown again.
C28_ToggleKeepsValues ==
    [][((\E tab \in {0, 1} : TableActionSelectTab(tab)) \/ TableActionToggleTab)
          => form' = form]_vars

\* C29: no query is sent to the backend with the empty partition-key
\* value for a table that has a partition key.
C29_PartitionValueRequired ==
    \A q \in QueryRequests :
        q.input.ExpressionAttributeNames["#pk"] # "" =>
            q.input.ExpressionAttributeValues[":pk"] # AVS("")

(***************************************************************************)
(* Properties of the export.                                               *)
(***************************************************************************)
\* what the export must leave alone: the page on display, the page number,
\* the history, and the rows and raw item of the item detail page
ExportFrame == <<result, currentPage, pageHistory, itemRows, rawItem>>

\* C30: a step of the item detail page that opens a page above it (the
\* export, whether it succeeds or fails, shows a notice) changes neither the
\* page on display, the page number, the history nor the item shown; a
\* failed export writes no file; every step taken on a notice removes the
\* notice and gives the focus back to the item detail page, with all of
\* these unchanged again.
C30_ExportLeavesState ==
    [][/\ (KeyOn("fullitem") /\ focus' # "fullitem" /\ HasPage(pages', "fullitem")) =>
             /\ focus' \in {"savesuccess", "saveerror", "jsonview"}
             /\ focus' = "saveerror" => written' = NoFile
             /\ UNCHANGED ExportFrame
       /\ (uiloop = "idle" /\ focus \in {"savesuccess", "saveerror"}) =>
             /\ focus' = "fullitem"
             /\ ~HasPage(pages', focus)
             /\ UNCHANGED ExportFrame]_vars

\* C30 witness: an export from the item detail page of a results page has
\* failed and its notice is shown.
C30_Witness ==
    /\ uiloop = "idle"
    /\ focus = "saveerror"
    /\ HasPage(pages, "fullitem")
    /\ Len(itemRows) > 0
    /\ Len(pageHistory) >= 1

(***************************************************************************)
(* C31: the display string of an attribute value is deterministic: two     *)
(* calls of formatAttributeValue on equal values return the same string,   *)
(* also for a Map of two or more keys and for a List of Maps.              *)
(***************************************************************************)
C31_DisplayDeterministic ==
    fn.name = "formatAttributeValue" => fn.value[1] = fn.value[2]

(***************************************************************************)
(* C32: a page with no items and a continuation key is handled as a normal *)
(* page: whenever the results page displays such a page, it is the entry   *)
(* of the page history at the current page number, and Ctrl+N fetches the  *)
(* page after its key.                                                     *)
(***************************************************************************)
C32_EmptyPageWithKey ==
    (OnResults /\ result.Items = <<>> /\ result.LastEvaluatedKey # NilMap) =>
        /\ pageHistory[currentPage].items = <<>>
        /\ pageHistory[currentPage].lastEvaluatedKey = result.LastEvaluatedKey
        /\ currentPage < MaxPages =>
               ENABLED (ResultsCtrlN /\ call' = NextPageInput(ResultsKind))

(***************************************************************************)
(* C33: when the first result of a query or scan has no items and no key,  *)
(* the results page offers neither next nor previous: the navigation row   *)
(* presents no button, and neither Ctrl+N nor Ctrl+B changes the state or  *)
(* calls the backend.                                                      *)
(***************************************************************************)
\* the results page displays a first result without items and without key
EmptyFirstResult ==
    /\ OnResults
    /\ Len(pageHistory) = 1
    /\ result.Items = <<>>
    /\ result.LastEvaluatedKey = NilMap

C33_EmptyResultOffersNoPaging ==
    EmptyFirstResult =>
        /\ navFlex = <<>>
        /\ ~ENABLED (ResultsCtrlN /\ vars' # vars)
        /\ ~ENABLED (ResultsCtrlB /\ vars' # vars)

(***************************************************************************)
(* C34: the table list returned by Client.ListTables is sorted by item     *)
(* count, descending: of two adjacent entries the earlier has an item      *)
(* count greater than or equal to that of the later.                       *)
(***************************************************************************)
C34_SortedByItemCount ==
    (fn.name = "ListTables" /\ ~fn.value.err) =>
        \A i \in 1..(Len(fn.value.tables) - 1) :
            fn.value.tables[i].ItemCount >= fn.value.tables[i + 1].ItemCount

\* C34 witness: the service lists the table of 20 items before two tables of
\* 50 items, and the list returned begins with the tables of 50 items.
C34_Witness ==
    /\ fn.name = "ListTables"
    /\ Len(fn.args[2]) = 3
    /\ fn.args[2][1] = "users"
    /\ fn.args[3] = {}
    /\ Len(fn.value.tables) = 3
    /\ fn.value.tables[3].Name = "users"

(***************************************************************************)
(* C35: while a results page is open the number of the current page is at  *)
(* least 1 and at most the length of the page history; the history never   *)
(* gets shorter, and a step (a next among them) makes it longer by at most *)
(* one page.                                                               *)
(***************************************************************************)
C35_IndexWithinHistory ==
    /\ [](ResultsOpen => (1 <= currentPage /\ currentPage <= Len(pageHistory)))
    /\ [][(ResultsOpen /\ ResultsOpen') =>
             Len(pageHistory') \in {Len(pageHistory), Len(pageHistory) + 1}]_vars

\* C35 witness: after a next and a previous the results page shows page 1
\* of a history of two pages.
C35_Witness ==
    /\ OnResults
    /\ currentPage = 1
    /\ Len(pageHistory) = 2

(***************************************************************************)
(* C36: whenever the results page waits for a key, the page it shows, its  *)
(* items and the key a next would continue from, is the entry of the page  *)
(* history at the current page number, whatever the backend answers to a   *)
(* request it has answered before.                                         *)
(***************************************************************************)
C36_DisplayIsHistoryEntry ==
    OnResults => ShowsHistoryPage(result, currentPage)

(***************************************************************************)
(* C37: a next whose fetch fails leaves the pagination as it was: the page *)
(* number, the page history, the result on display and the next button     *)
(* are those of before the call, and the results page waits for a key      *)
(* again, so that the same next can be tried again.                        *)
(***************************************************************************)
C37_FailedNextKeepsState ==
    [][(uiloop = "blocked" /\ NextPageFails)
          => /\ currentPage' = currentPage
             /\ pageHistory' = pageHistory
             /\ result' = result
             /\ navFlex' = navFlex
             /\ focus' = focus
             /\ uiloop' = "idle"]_vars

\* C37 witness: a next from page 1 of a history of two pages waits for the
\* backend, and the call may fail.
C37_Witness ==
    /\ uiloop = "blocked"
    /\ focus \in ResultsPages
    /\ Len(pageHistory) = 2
    /\ ENABLED (NextPageReturn /\ NextPageFails)

(***************************************************************************)
(* C38: under fair scheduling of the backend replies and of the UI loop,   *)
(* every submit leaves the loading state: whenever the loading modal of a  *)
(* query or scan has the focus, it is eventually removed, and the results  *)
(* page or the error modal of that kind of submit then has the focus.      *)
(***************************************************************************)
C38_LoadingEnds ==
    \A kind \in {"query", "scan"} :
        (focus = LoadingPage(kind))
            ~> (/\ ~HasPage(pages, LoadingPage(kind))
                /\ focus \in {kind \o "result", kind \o "error"})

\* C38 witness: the backend has replied to a query with an error, the
\* update waits in the queue of the UI loop and the loading modal is still
\* shown.
C38_Witness ==
    /\ focus = "loading"
    /\ Len(updates) > 0
    /\ updates[1].kind = "query"
    /\ updates[1].err

(***************************************************************************)
(* C39: the query results page and the scan results page are the same      *)
(* paging machine: for the page on display, the result a previous rebuilds *)
(* from the entry either page keeps in its history (display items, raw     *)
(* items, key), on which the selection of a row acts, is the same.         *)
(***************************************************************************)
C39_QueryScanSameMachine ==
    OnResults =>
        ResultOfPageState("query", PageStateOf("query", result))
            = ResultOfPageState("scan", PageStateOf("scan", result))

====
